---------------------------- MODULE Spec2Model ----------------------------
(***************************************************************************)
(* A model of py-http (src/lib): the range-aware file transfer of          *)
(* ResponseHelper.file, the per-request error adapter of                   *)
(* HttpServerHandler, and the thread-pooled dispatcher of                  *)
(* ThreadPooledHTTPServer / HttpServer.                                    *)
(*                                                                         *)
(* Three specifications share the module:                                  *)
(*   FileSpec  one call of ResponseHelper.file on one request              *)
(*   Spec      one run of HttpServerHandler.handle_one_request             *)
(*   PoolSpec  the accept loop, the worker pool and server_close           *)
(***************************************************************************)
EXTENDS Integers, Sequences, FiniteSets, TLC

VARIABLES
  \* ---- ResponseHelper.file (FileSpec) ----
  fpc,             \* position inside file(): call, sendfile, buffer, stream, done, raised
  path_kind,       \* what os.path says of `path`: missing, dir, file
  file_size,       \* os.path.getsize(path)
  range_header,    \* r.headers.get("Range"): [present, text]
  mode,            \* the mode argument
  status_arg,      \* the status argument
  chunk_size,      \* the chunk_size argument
  resp_status,     \* sequence of the status codes passed to send_response
  resp_headers,    \* sequence of <<name, value>> passed to send_header
  resp_body,       \* the body bytes written to the client so far
  file_opened,     \* whether open(path, "rb") was executed
  start,           \* local variable start
  end,             \* local variable end
  content_length,  \* local variable content_length
  sent,            \* sendfile loop: bytes sent so far
  remaining,       \* stream loop: bytes still to deliver
  range_parsed,    \* whether the try block of the Range parse reached line 245
  file_exc,        \* exception that left file(): none, IndexError, ValueError
  \* ---- HttpServerHandler.handle_one_request (Spec) ----
  hpc,                  \* position: read, handle, flush, error, done, escaped
  err_exc,              \* the exception in flight at hpc = "error": none, bp, other
  err_site,             \* the except clause it reached: inner (line 88), outer (lines 39-42)
  handler_set,          \* callable(server.handler_func)
  error_handler_set,    \* callable(server.error_handler_func)
  response_bound,       \* self.response is set (line 22)
  path_set,             \* hasattr(self, "path_no_query")
  status_lines,         \* number of send_response calls on this request
  hdr_buffer,           \* status lines sitting in _headers_buffer, not yet written
  wire,                 \* what reached the socket: sequence of <<who, what>>
  handler_calls,        \* invocations of handler_func
  callback_calls,       \* invocations of error_handler / default_error_handler
  close_connection,     \* self.close_connection
  other_raised,         \* a failure other than BrokenPipe/ConnectionReset was raised
                        \* by the read, the handler, send_error or the final flush
  suppressed,           \* a BrokenPipe/ConnectionReset reached lines 39-40 or 53-55
  suppressed_in_handler,\* ... and it was raised inside handler_func (lines 53-55)
  error_response_failed,\* the error callback / default page (or its flush) raised
  calls_at_failure,     \* callback_calls when that first happened
  writes_at_failure,    \* status_lines + Len(wire) when that first happened
  raw_path,             \* hasattr(self, "path"): parse_request got as far as the path
  path_from,            \* what path_no_query was parsed from: "unset", "raw", "slash"
  rejected,             \* why no handler ran: "none", "414", "400", "empty", "501"
  \* ---- ThreadPooledHTTPServer / HttpServer (PoolSpec) ----
  max_workers,          \* the max_workers of the ThreadPoolExecutor (HttpServer.max_threads)
  sock_open,            \* the listening socket is open
  executor,             \* self._executor: active, shutdown (shutdown() was called), none
  server_ref,           \* HttpServer.server is not None
  shutdown_requested,   \* server.shutdown() was called (the signal handler's thread)
  tpc,                  \* position of the thread in start() and of the thread in stop()
  accepted,             \* number of connections accepted; they are 1..accepted
  in_hand,              \* the connection between get_request and process_request, or 0
  queue,                \* the executor's work queue
  running,              \* connections whose _process_request_thread is executing
  finished,             \* connections whose finish_request ended
  request_closed,       \* connections for which shutdown_request was called
  dropped,              \* connections passed to process_request and never submitted
  running_at_close,     \* per thread: running when its server_close() began
  queued_at_close,      \* per thread: the queued connections at that moment
  accepted_after_close, \* a connection was accepted after a server_close() began
  \* ---- ResponseHelper.streamProxy and fetch (ProxySpec) ----
  ppc,                  \* position in streamProxy / fetch
  px_op,                \* which of the two is called
  px_headers_arg,       \* the headers argument: [kind, init], init what Headers(...) was built from
  px_chunk_size,        \* chunk_size argument of streamProxy
  up,                   \* what urlopen and the upstream do in this call
  px_forwarded,         \* the header dict given to Request(...), as a set of <<key, value>>
  px_requested,         \* urlopen was called
  upstream_bound,       \* the local name `upstream` is bound
  px_status,            \* the status codes passed to send_response
  px_resp_headers,      \* the send_header calls, in order
  px_body,              \* what was written to wfile after the headers
  px_read,              \* number of upstream body bytes read so far
  px_exc,               \* the exception that left streamProxy / fetch, or "none"
  fetch_result,         \* the Response fetch returned: [status, headers, body], or <<>>
  \* ---- HttpServerError and the error page (ErrorSpec) ----
  epc,                  \* position: build the record, deliver it, done
  er_exc,               \* the exception: [cls, status_code, text]
  er_caller,            \* who calls from_exception: _handle_error or user code
  er_args,              \* its arguments: [status_code, message, debug]
  er_configured,        \* an error callback is configured
  er_error,             \* the HttpServerError built, or <<>>
  er_callback_arg,      \* the records passed to the error callback
  er_page,              \* the default page sent: [status, title, message], or <<>>
  \* ---- HttpServer.start, binding and retries (StartSpec) ----
  st_pc,                \* position in the innermost active call of start()
  st_platform,          \* the platform, which fixes the errno of "address in use"
  st_retries,           \* _retries of the innermost active call
  st_main_thread,       \* start() runs in the main thread
  st_exc,               \* the exception in flight: none, OSError, ValueError
  st_errno,             \* errno of the OSError in flight, 0 when there is none
  st_server,            \* self.server is not None
  st_log,               \* what happened so far: binds, helper calls, sleeps, closes
  \* ---- one connection and its response method (ResponseSpec) ----
  rpc,                  \* position: accept, queued, call, status, headers, end, body, done
  rs_tasks,             \* work items queued in the executor for this connection
  rs_workers,           \* how many times a pool thread began _process_request_thread on it
  rs_method,            \* the response method the handler calls
  rs_body,              \* the shape of its body argument: dict, list, str, bytes, none, file
  rs_status,            \* its status argument
  rs_mode,              \* file: sendfile, buffer or stream; "none" for the other methods
  rs_headers_arg,       \* rewrite: the headers dict given to Response(), in order
  rs_resp,              \* rewrite: the Response object [status, headers, body], or <<>>
  rs_buffer,            \* the request's header buffer: [ev, name, value] not yet written
  rs_out                \* what reached the socket, in order: [ev, name, value]

fileVars == <<fpc, path_kind, file_size, range_header, mode, status_arg, chunk_size,
              resp_status, resp_headers, resp_body, file_opened, start, end,
              content_length, sent, remaining, range_parsed, file_exc>>

connVars == <<hpc, err_exc, err_site, handler_set, error_handler_set, response_bound,
              path_set, status_lines, hdr_buffer, wire, handler_calls, callback_calls,
              close_connection, other_raised, suppressed, suppressed_in_handler,
              error_response_failed, calls_at_failure, writes_at_failure, rejected,
              raw_path, path_from>>

poolVars == <<max_workers, sock_open, executor, server_ref, shutdown_requested, tpc,
              accepted, in_hand, queue, running, finished, request_closed, dropped,
              running_at_close, queued_at_close, accepted_after_close>>

proxyVars == <<ppc, px_op, px_headers_arg, px_chunk_size, up, px_forwarded, px_requested,
               upstream_bound, px_status, px_resp_headers, px_body, px_read, px_exc,
               fetch_result>>

errorVars == <<epc, er_exc, er_caller, er_args, er_configured, er_error, er_callback_arg,
               er_page>>

startVars == <<st_pc, st_platform, st_main_thread, st_retries, st_exc, st_errno, st_server,
               st_log>>

respVars == <<rpc, rs_tasks, rs_workers, rs_method, rs_body, rs_status, rs_mode,
              rs_headers_arg, rs_resp, rs_buffer, rs_out>>

vars == <<fileVars, connVars, poolVars, proxyVars, errorVars, startVars, respVars>>

\* What the actions of one specification leave alone.
notFileVars == <<connVars, poolVars, proxyVars, errorVars, startVars, respVars>>

notConnVars == <<fileVars, poolVars, proxyVars, errorVars, startVars, respVars>>

notPoolVars == <<fileVars, connVars, proxyVars, errorVars, startVars, respVars>>

notProxyVars == <<fileVars, connVars, poolVars, errorVars, startVars, respVars>>

notErrorVars == <<fileVars, connVars, poolVars, proxyVars, startVars, respVars>>

notStartVars == <<fileVars, connVars, poolVars, proxyVars, errorVars, respVars>>

notRespVars == <<fileVars, connVars, poolVars, proxyVars, errorVars, startVars>>

-----------------------------------------------------------------------------
(* Bounds of the model. *)

MaxFileSize == 3
MaxSpecLen == 4
MaxOtherSpecLen == 2
MaxChunk == 2
MaxConns == 3
MaxWorkers == 2
MaxUpHeaders == 2
MaxCallerHeaders == 1
MaxUpBody == 2
MaxProxyChunk == 2

-----------------------------------------------------------------------------
(* Small helpers. *)

Min(a, b) == IF a <= b THEN a ELSE b

Max(a, b) == IF a >= b THEN a ELSE b

\* All sequences over S of length 0..n.
SeqsUpTo(S, n) == UNION {[1..k -> S] : k \in 0..n}

\* str.startswith
StartsWith(s, p) == Len(s) >= Len(p) /\ SubSeq(s, 1, Len(p)) = p

\* str.endswith
EndsWith(s, p) == Len(s) >= Len(p) /\ SubSeq(s, Len(s) - Len(p) + 1, Len(s)) = p

\* s[n:]
DropFirst(s, n) == SubSeq(s, n + 1, Len(s))

\* s[:-n]
DropLast(s, n) == SubSeq(s, 1, Len(s) - n)

\* Index of the first occurrence of character c in s, 0 when there is none.
FirstIndex(s, c) ==
  IF \E i \in DOMAIN s : s[i] = c
    THEN CHOOSE i \in DOMAIN s : s[i] = c /\ \A j \in 1..(i - 1) : s[j] # c
    ELSE 0

\* str.split(c): the pieces of s between the occurrences of c.
RECURSIVE Split(_, _)
Split(s, c) ==
  LET i == FirstIndex(s, c)
  IN IF i = 0 THEN <<s>>
     ELSE <<SubSeq(s, 1, i - 1)>> \o Split(DropFirst(s, i), c)

DigitChars == {"0", "1", "2", "3", "4", "5", "6", "7", "8", "9"}

DigitVal(c) ==
  CASE c = "0" -> 0 [] c = "1" -> 1 [] c = "2" -> 2 [] c = "3" -> 3 [] c = "4" -> 4
    [] c = "5" -> 5 [] c = "6" -> 6 [] c = "7" -> 7 [] c = "8" -> 8 [] c = "9" -> 9

AllDigits(s) == Len(s) >= 1 /\ \A i \in DOMAIN s : s[i] \in DigitChars

RECURSIVE DecVal(_)
DecVal(s) == IF s = <<>> THEN 0 ELSE DecVal(DropLast(s, 1)) * 10 + DigitVal(s[Len(s)])

\* Python's int(str) on the characters the model draws: an optional sign and
\* at least one decimal digit; anything else raises ValueError (ok = FALSE).
PyInt(s) ==
  IF AllDigits(s) THEN [ok |-> TRUE, val |-> DecVal(s)]
  ELSE IF Len(s) >= 2 /\ s[1] = "-" /\ AllDigits(DropFirst(s, 1))
    THEN [ok |-> TRUE, val |-> 0 - DecVal(DropFirst(s, 1))]
  ELSE IF Len(s) >= 2 /\ s[1] = "+" /\ AllDigits(DropFirst(s, 1))
    THEN [ok |-> TRUE, val |-> DecVal(DropFirst(s, 1))]
  ELSE [ok |-> FALSE, val |-> 0]


-----------------------------------------------------------------------------
(* The parts of the state a specification does not use stay at these values. *)

ConnIdle ==
  /\ hpc = "idle"
  /\ err_exc = "none"
  /\ err_site = "none"
  /\ handler_set = TRUE
  /\ error_handler_set = FALSE
  /\ response_bound = FALSE
  /\ path_set = FALSE
  /\ status_lines = 0
  /\ hdr_buffer = 0
  /\ wire = <<>>
  /\ handler_calls = 0
  /\ callback_calls = 0
  /\ close_connection = FALSE
  /\ other_raised = FALSE
  /\ suppressed = FALSE
  /\ suppressed_in_handler = FALSE
  /\ error_response_failed = FALSE
  /\ calls_at_failure = 0
  /\ writes_at_failure = 0
  /\ rejected = "none"
  /\ raw_path = FALSE
  /\ path_from = "unset"

FileIdle ==
  /\ fpc = "idle"
  /\ path_kind = "file"
  /\ file_size = 0
  /\ range_header = [present |-> FALSE, text |-> <<>>]
  /\ mode = "sendfile"
  /\ status_arg = 200
  /\ chunk_size = 1
  /\ resp_status = <<>>
  /\ resp_headers = <<>>
  /\ resp_body = <<>>
  /\ file_opened = FALSE
  /\ start = 0
  /\ end = 0
  /\ content_length = 0
  /\ sent = 0
  /\ remaining = 0
  /\ range_parsed = FALSE
  /\ file_exc = "none"

Threads == {"start", "stop"}

PoolIdle ==
  /\ max_workers = 1
  /\ sock_open = FALSE
  /\ executor = "none"
  /\ server_ref = FALSE
  /\ shutdown_requested = FALSE
  /\ tpc = [t \in Threads |-> "idle"]
  /\ accepted = 0
  /\ in_hand = 0
  /\ queue = <<>>
  /\ running = {}
  /\ finished = {}
  /\ request_closed = {}
  /\ dropped = {}
  /\ running_at_close = [t \in Threads |-> {}]
  /\ queued_at_close = [t \in Threads |-> {}]
  /\ accepted_after_close = FALSE

ProxyIdle ==
  /\ ppc = "idle"
  /\ px_op = "streamProxy"
  /\ px_headers_arg = [kind |-> "None", init |-> <<>>]
  /\ px_chunk_size = 1
  /\ up = [kind |-> "timeout", status |-> 0, reason |-> "", headers |-> <<>>,
           body |-> <<>>, stall |-> FALSE]
  /\ px_forwarded = {}
  /\ px_requested = FALSE
  /\ upstream_bound = FALSE
  /\ px_status = <<>>
  /\ px_resp_headers = <<>>
  /\ px_body = <<>>
  /\ px_read = 0
  /\ px_exc = "none"
  /\ fetch_result = <<>>

ErrorIdle ==
  /\ epc = "idle"
  /\ er_exc = [cls |-> "ValueError", status_code |-> 0, text |-> "boom"]
  /\ er_caller = "_handle_error"
  /\ er_args = [status_code |-> 500, message |-> "None", debug |-> FALSE]
  /\ er_configured = FALSE
  /\ er_error = <<>>
  /\ er_callback_arg = <<>>
  /\ er_page = <<>>

StartIdle ==
  /\ st_pc = "idle"
  /\ st_platform = "linux"
  /\ st_main_thread = TRUE
  /\ st_retries = 0
  /\ st_exc = "none"
  /\ st_errno = 0
  /\ st_server = FALSE
  /\ st_log = <<>>

RespIdle ==
  /\ rpc = "idle"
  /\ rs_tasks = 0
  /\ rs_workers = 0
  /\ rs_method = "html"
  /\ rs_body = "str"
  /\ rs_status = "200"
  /\ rs_mode = "none"
  /\ rs_headers_arg = <<>>
  /\ rs_resp = <<>>
  /\ rs_buffer = <<>>
  /\ rs_out = <<>>

-----------------------------------------------------------------------------
(* ResponseHelper.file: src/lib/response.py lines 169-304. *)

BytesPrefix == <<"b", "y", "t", "e", "s", "=">>

OtherPrefix == <<"i", "t", "e", "m", "s", "=">>

\* The characters range specs are drawn from.
SpecChars == {"0", "1", "2", "-", "x"}

\* The values of the Range request header the model draws: absent, or a unit
\* prefix followed by a spec of at most MaxSpecLen characters.
RangeHeaders ==
  {[present |-> FALSE, text |-> <<>>]}
    \cup {[present |-> TRUE, text |-> BytesPrefix \o s] :
            s \in SeqsUpTo(SpecChars, MaxSpecLen)}
    \cup {[present |-> TRUE, text |-> OtherPrefix \o s] :
            s \in SeqsUpTo(SpecChars, MaxOtherSpecLen)}

Modes == {"sendfile", "buffer", "stream"}

StatusArgs == {200, 206}

ChunkSizes == 1..MaxChunk

\* The file's bytes: byte i of the file (offset i) has the value i, so a body
\* tells which offsets it was read from.
FileBytes(size) == [i \in 1..size |-> i - 1]

\* What a read of up to n bytes at `offset` returns (n >= 0).
ReadAt(size, offset, n) ==
  IF offset >= size \/ n <= 0 THEN <<>>
  ELSE SubSeq(FileBytes(size), offset + 1, Min(offset + n, size))

\* Line 245: if start > end or start >= file_size.
RangeUnsatisfiableStartOnly(s, e, size) == s > e

RangeUnsatisfiable(s, e, size) == s > e \/ s >= size

\* Lines 244-252, entered when the integers parsed: 416, or clamp and 206.
ValidateNoClamp(s, e, size) ==
  IF RangeUnsatisfiable(s, e, size)
    THEN [outcome |-> "r416", start |-> s, end |-> e, status |-> 416, parsed |-> TRUE]
    ELSE [outcome |-> "send", start |-> s, end |-> e, status |-> 206, parsed |-> TRUE]

Validate(s, e, size) ==
  IF RangeUnsatisfiable(s, e, size)
    THEN [outcome |-> "r416", start |-> s, end |-> e, status |-> 416, parsed |-> TRUE]
    ELSE [outcome |-> "send", start |-> s, end |-> Min(e, size - 1), status |-> 206,
          parsed |-> TRUE]

\* Lines 253-254: except ValueError: pass. The locals keep what was assigned
\* before int() raised (s is start at that point); status is untouched.
ValueErrorPass(s, size, status) ==
  [outcome |-> "send", start |-> s, end |-> size - 1, status |-> status, parsed |-> FALSE]

\* Lines 239-242: parts = range_spec.split("-"); start = int(parts[0]);
\* end = int(parts[1]) if parts[1] else file_size - 1.
ExplicitRange(range_spec, size, status) ==
  LET parts == Split(range_spec, "-")
      p0 == PyInt(parts[1])
  IN IF ~p0.ok THEN ValueErrorPass(0, size, status)
     ELSE IF Len(parts) < 2
       THEN [outcome |-> "IndexError", start |-> p0.val, end |-> size - 1,
             status |-> status, parsed |-> FALSE]
     ELSE IF parts[2] = <<>> THEN Validate(p0.val, size - 1, size)
     ELSE LET p1 == PyInt(parts[2])
          IN IF p1.ok THEN Validate(p0.val, p1.val, size)
             ELSE ValueErrorPass(p0.val, size, status)

\* Lines 225-254: the Range header resolved against the file size.
ParseRange(hdr, size, status) ==
  IF ~(hdr.present /\ hdr.text # <<>> /\ StartsWith(hdr.text, BytesPrefix))
    THEN [outcome |-> "send", start |-> 0, end |-> size - 1, status |-> status,
          parsed |-> FALSE]
  ELSE LET range_spec == DropFirst(hdr.text, 6)
       IN IF StartsWith(range_spec, <<"-">>)
            THEN LET n == PyInt(DropFirst(range_spec, 1))
                 IN IF n.ok THEN Validate(Max(0, size - n.val), size - 1, size)
                    ELSE ValueErrorPass(0, size, status)
          ELSE IF EndsWith(range_spec, <<"-">>)
            THEN LET a == PyInt(DropLast(range_spec, 1))
                 IN IF a.ok THEN Validate(a.val, size - 1, size)
                    ELSE ValueErrorPass(0, size, status)
          ELSE ExplicitRange(range_spec, size, status)

\* Lines 258-268: the header block of a served file.
FileHeadersLengthOffByOne(status, s, e, size) ==
  <<<<"Content-Type", "guessed">>, <<"Content-Length", e - s>>,
    <<"Accept-Ranges", "bytes">>>>
    \o (IF status = 206 THEN <<<<"Content-Range", <<"bytes", s, e, size>>>>>> ELSE <<>>)

FileHeaders(status, s, e, size) ==
  <<<<"Content-Type", "guessed">>, <<"Content-Length", e - s + 1>>,
    <<"Accept-Ranges", "bytes">>>>
    \o (IF status = 206 THEN <<<<"Content-Range", <<"bytes", s, e, size>>>>>> ELSE <<>>)

FileInit ==
  /\ fpc = "call"
  /\ path_kind \in {"missing", "dir", "file"}
  /\ file_size \in 0..MaxFileSize
  /\ (path_kind # "file" => file_size = 0)
  /\ range_header \in RangeHeaders
  /\ (path_kind # "file" => ~range_header.present)
  /\ mode \in Modes
  /\ status_arg \in StatusArgs
  /\ chunk_size \in ChunkSizes
  /\ resp_status = <<>>
  /\ resp_headers = <<>>
  /\ resp_body = <<>>
  /\ file_opened = FALSE
  /\ start = 0
  /\ end = 0
  /\ content_length = 0
  /\ sent = 0
  /\ remaining = 0
  /\ range_parsed = FALSE
  /\ file_exc = "none"
  /\ ConnIdle
  /\ PoolIdle
  /\ ProxyIdle
  /\ ErrorIdle
  /\ StartIdle
  /\ RespIdle

\* Lines 200-268: the checks on the path, the Range header, the status line
\* and the header block.
FileCall ==
  /\ fpc = "call"
  /\ UNCHANGED notFileVars
  /\ IF path_kind = "missing"
       THEN /\ resp_status' = <<404>>
            /\ resp_headers' = <<<<"Content-Type", "text/plain">>>>
            /\ resp_body' = <<"File not found">>
            /\ fpc' = "done"
            /\ UNCHANGED <<start, end, content_length, range_parsed, file_exc>>
     ELSE IF path_kind = "dir"
       THEN /\ resp_status' = <<400>>
            /\ resp_headers' = <<<<"Content-Type", "text/plain">>>>
            /\ resp_body' = <<"Path is not a file">>
            /\ fpc' = "done"
            /\ UNCHANGED <<start, end, content_length, range_parsed, file_exc>>
     ELSE LET r == ParseRange(range_header, file_size, status_arg)
          IN /\ start' = r.start
             /\ end' = r.end
             /\ range_parsed' = r.parsed
             /\ resp_body' = <<>>
             /\ CASE r.outcome = "IndexError" ->
                       /\ file_exc' = "IndexError"
                       /\ fpc' = "raised"
                       /\ UNCHANGED <<resp_status, resp_headers, content_length>>
                  [] r.outcome = "r416" ->
                       /\ resp_status' = <<416>>
                       /\ resp_headers' = <<<<"Content-Range", <<"bytes", "*", file_size>>>>>>
                       /\ fpc' = "done"
                       /\ UNCHANGED <<content_length, file_exc>>
                  [] r.outcome = "send" ->
                       /\ content_length' = r.end - r.start + 1
                       /\ resp_status' = <<r.status>>
                       /\ resp_headers' = FileHeaders(r.status, r.start, r.end, file_size)
                       /\ fpc' = "open"
                       /\ UNCHANGED file_exc
  /\ UNCHANGED <<path_kind, file_size, range_header, mode, status_arg, chunk_size,
                 file_opened, sent, remaining>>

\* Lines 276-278, 287-290, 293-295: open the file; buffer mode reads the
\* range and writes it at once (read(n) raises ValueError for n < -1).
FileOpen ==
  /\ fpc = "open"
  /\ UNCHANGED notFileVars
  /\ file_opened' = TRUE
  /\ \/ /\ mode = "sendfile"
        /\ sent' = 0
        /\ fpc' = "sendfile"
        /\ UNCHANGED <<resp_body, remaining, file_exc>>
     \/ /\ mode = "buffer"
        /\ IF content_length < -1
             THEN /\ file_exc' = "ValueError"
                  /\ fpc' = "raised"
                  /\ UNCHANGED resp_body
             ELSE /\ resp_body' = resp_body \o
                       ReadAt(file_size, start,
                              IF content_length = -1 THEN file_size ELSE content_length)
                  /\ fpc' = "done"
                  /\ UNCHANGED file_exc
        /\ UNCHANGED <<sent, remaining>>
     \/ /\ mode = "stream"
        /\ remaining' = content_length
        /\ fpc' = "stream"
        /\ UNCHANGED <<resp_body, sent, file_exc>>
  /\ UNCHANGED <<path_kind, file_size, range_header, mode, status_arg, chunk_size,
                 resp_status, resp_headers, start, end, content_length, range_parsed>>

\* What os.sendfile(out, in, offset, count) may return: 0 at or past the end
\* of the file, else any partial count.
SendfileReturnsEarlyZero(size, offset, count) ==
  IF offset >= size THEN {0} ELSE 0..Min(count, size - offset)

SendfileReturns(size, offset, count) ==
  IF offset >= size THEN {0} ELSE 1..Min(count, size - offset)

\* Lines 279-284: one turn of the sendfile loop.
SendfileStep ==
  /\ fpc = "sendfile"
  /\ UNCHANGED notFileVars
  /\ IF sent < content_length
       THEN \E chunk \in SendfileReturns(file_size, start + sent, content_length - sent) :
              IF chunk = 0
                THEN fpc' = "done" /\ UNCHANGED <<sent, resp_body>>
                ELSE /\ resp_body' = resp_body \o ReadAt(file_size, start + sent, chunk)
                     /\ sent' = sent + chunk
                     /\ fpc' = "sendfile"
       ELSE fpc' = "done" /\ UNCHANGED <<sent, resp_body>>
  /\ UNCHANGED <<path_kind, file_size, range_header, mode, status_arg, chunk_size,
                 resp_status, resp_headers, file_opened, start, end, content_length,
                 remaining, range_parsed, file_exc>>

\* Lines 296-304: one turn of the stream loop.
StreamStep ==
  /\ fpc = "stream"
  /\ UNCHANGED notFileVars
  /\ IF remaining > 0
       THEN LET read_size == Min(chunk_size, remaining)
                \* f.read(n): n = -1 reads to the end of the file, n < -1 raises
                chunk == ReadAt(file_size, start + (content_length - remaining),
                                IF read_size = -1 THEN file_size ELSE read_size)
            IN IF read_size < -1
                 THEN /\ file_exc' = "ValueError"
                      /\ fpc' = "raised"
                      /\ UNCHANGED <<remaining, resp_body>>
                 ELSE IF chunk = <<>>
                 THEN fpc' = "done" /\ UNCHANGED <<remaining, resp_body, file_exc>>
                 ELSE /\ resp_body' = resp_body \o chunk
                      /\ remaining' = remaining - Len(chunk)
                      /\ fpc' = "stream"
                      /\ UNCHANGED file_exc
       ELSE fpc' = "done" /\ UNCHANGED <<remaining, resp_body, file_exc>>
  /\ UNCHANGED <<path_kind, file_size, range_header, mode, status_arg, chunk_size,
                 resp_status, resp_headers, file_opened, start, end, content_length,
                 sent, range_parsed>>

FileNext == FileCall \/ FileOpen \/ SendfileStep \/ StreamStep

FileSpec == FileInit /\ [][FileNext]_vars

\* The chunk_size argument is an int the caller chooses freely (line 174):
\* the calls of FileInit, and those with a chunk_size of 0 or below.
MinChunk == -2

AnyChunkSizes == MinChunk..MaxChunk

FileAnyChunkInit ==
  /\ fpc = "call"
  /\ path_kind = "file"
  /\ file_size \in 0..MaxFileSize
  /\ range_header \in RangeHeaders
  /\ mode \in Modes
  /\ status_arg \in StatusArgs
  /\ chunk_size \in AnyChunkSizes
  /\ resp_status = <<>>
  /\ resp_headers = <<>>
  /\ resp_body = <<>>
  /\ file_opened = FALSE
  /\ start = 0
  /\ end = 0
  /\ content_length = 0
  /\ sent = 0
  /\ remaining = 0
  /\ range_parsed = FALSE
  /\ file_exc = "none"
  /\ ConnIdle
  /\ PoolIdle
  /\ ProxyIdle
  /\ ErrorIdle
  /\ StartIdle
  /\ RespIdle

FileAnyChunkSpec == FileAnyChunkInit /\ [][FileNext]_vars

-----------------------------------------------------------------------------
(* HttpServerHandler: src/lib/handler.py; the response methods it calls are *)
(* those of src/lib/response.py lines 62-107.                               *)

\* How far a response method got: 0 nothing, 1 send_response done (the status
\* line is buffered), 2 end_headers done (status line and headers written),
\* 3 body written.
Progress == 0..3

Excs == {"none", "bp", "other"}

\* What a call of user code (handler_func, error_handler) may do: call one
\* response method, which gets as far as p, and return (e = "none") or raise.
UserOutcomes == [p : Progress, e : Excs]

\* What html() / send_error() may do: they call send_response first, and only
\* their socket writes (end_headers, wfile.write) raise.
WriteOutcomes ==
  {[p |-> 3, e |-> "none"]} \cup [p : {1, 2}, e : {"bp", "other"}]

\* What wfile.flush() may do.
FlushOutcomes == Excs

\* send_response / end_headers / wfile.write of one response, as far as p.
RespondStatusLines(p) == IF p >= 1 THEN status_lines + 1 ELSE status_lines

RespondHdrBuffer(p) ==
  IF p >= 2 THEN 0 ELSE IF p = 1 THEN hdr_buffer + 1 ELSE hdr_buffer

RespondWire(who, p) ==
  wire \o (IF p >= 2 THEN <<<<who, "head">>>> ELSE <<>>)
       \o (IF p >= 3 THEN <<<<who, "body">>>> ELSE <<>>)

Respond(who, p) ==
  /\ status_lines' = RespondStatusLines(p)
  /\ hdr_buffer' = RespondHdrBuffer(p)
  /\ wire' = RespondWire(who, p)

\* An exception raised inside the try block of handle_one_request, outside
\* handler_func: it reaches the except clauses of lines 39-42.
RaiseOuter(e) ==
  /\ hpc' = "error"
  /\ err_exc' = e
  /\ err_site' = "outer"
  /\ other_raised' = (other_raised \/ e = "other")

ConnInit ==
  /\ hpc = "read"
  /\ err_exc = "none"
  /\ err_site = "none"
  /\ handler_set \in BOOLEAN
  /\ error_handler_set \in BOOLEAN
  /\ response_bound = FALSE
  /\ path_set = FALSE
  /\ status_lines = 0
  /\ hdr_buffer = 0
  /\ wire = <<>>
  /\ handler_calls = 0
  /\ callback_calls = 0
  /\ close_connection = FALSE
  /\ other_raised = FALSE
  /\ suppressed = FALSE
  /\ suppressed_in_handler = FALSE
  /\ error_response_failed = FALSE
  /\ calls_at_failure = 0
  /\ writes_at_failure = 0
  /\ rejected = "none"
  /\ raw_path = FALSE
  /\ path_from = "unset"
  /\ FileIdle
  /\ PoolIdle
  /\ ProxyIdle
  /\ ErrorIdle
  /\ StartIdle
  /\ RespIdle

\* Lines 44-48 and 56-59: path_no_query and query_params are parsed from
\* self.path, or from "/" when the request has no path attribute.
PathSourceAlwaysSlash(has_path) == "slash"

PathSource(has_path) == IF has_path THEN "raw" ELSE "slash"

\* Lines 22-36: bind the response helper, read the request line, answer
\* 414 / 400 or go on.
ReadRequest ==
  /\ hpc = "read"
  /\ UNCHANGED notConnVars
  /\ response_bound' = TRUE
  /\ \/ \* the line parses: _set_path_and_query
        /\ hpc' = "handle"
        /\ path_set' = TRUE
        /\ raw_path' = TRUE
        /\ path_from' = PathSource(TRUE)
        /\ UNCHANGED <<err_exc, err_site, status_lines, hdr_buffer, wire,
                       close_connection, other_raised, rejected>>
     \/ \* nothing was read: close_connection = True
        /\ hpc' = "done"
        /\ close_connection' = TRUE
        /\ rejected' = "empty"
        /\ UNCHANGED <<raw_path, path_from>>
        /\ UNCHANGED <<err_exc, err_site, path_set, status_lines, hdr_buffer, wire,
                       other_raised>>
     \/ \* oversized line (414), or parse_request() false (its own send_error:
        \* 400 for the request line, 431 for the header lines)
        \E o \in WriteOutcomes, code \in {"414", "400"}, has_path \in BOOLEAN :
          /\ rejected' = code
          \* parse_request sets self.path before it reads the header lines,
          \* whose failure is answered too; a 414 precedes parse_request
          /\ code = "414" => ~has_path
          /\ raw_path' = has_path
          /\ UNCHANGED path_from
          /\ Respond("send_error", o.p)
          /\ IF o.e = "none"
               THEN hpc' = "done" /\ UNCHANGED <<err_exc, err_site, other_raised>>
               ELSE RaiseOuter(o.e)
          /\ UNCHANGED <<path_set, close_connection>>
     \/ \* rfile.readline raises
        \E e \in {"bp", "other"} :
          /\ RaiseOuter(e)
          /\ UNCHANGED <<path_set, status_lines, hdr_buffer, wire, close_connection,
                         rejected, raw_path, path_from>>
  /\ UNCHANGED <<handler_set, error_handler_set, handler_calls,
                 callback_calls, suppressed, suppressed_in_handler,
                 error_response_failed, calls_at_failure, writes_at_failure>>

\* Lines 80-89: handle_request.
HandleRequest ==
  /\ hpc = "handle"
  /\ UNCHANGED notConnVars
  /\ IF ~handler_set
       THEN \* lines 83-85: send_error(501)
            \E o \in WriteOutcomes :
              /\ Respond("send_error", o.p)
              /\ rejected' = "501"
              /\ IF o.e = "none"
                   THEN hpc' = "flush" /\ UNCHANGED <<err_exc, err_site, other_raised>>
                   ELSE RaiseOuter(o.e)
              /\ UNCHANGED handler_calls
       ELSE \* lines 86-89: handler_func(self), except Exception
            \E o \in UserOutcomes :
              /\ Respond("handler", o.p)
              /\ handler_calls' = handler_calls + 1
              /\ UNCHANGED rejected
              /\ IF o.e = "none"
                   THEN hpc' = "flush" /\ UNCHANGED <<err_exc, err_site, other_raised>>
                   ELSE /\ hpc' = "error"
                        /\ err_exc' = o.e
                        /\ err_site' = "inner"
                        /\ other_raised' = (other_raised \/ o.e = "other")
  /\ UNCHANGED <<handler_set, error_handler_set, response_bound, path_set, raw_path,
                 path_from,
                 callback_calls, close_connection, suppressed, suppressed_in_handler,
                 error_response_failed, calls_at_failure, writes_at_failure>>

\* Line 38: self.wfile.flush() after handle_request returned.
FinalFlush ==
  /\ hpc = "flush"
  /\ UNCHANGED notConnVars
  /\ \E f \in FlushOutcomes :
       IF f = "none"
         THEN hpc' = "done" /\ UNCHANGED <<err_exc, err_site, other_raised>>
         ELSE RaiseOuter(f)
  /\ UNCHANGED <<handler_set, error_handler_set, response_bound, path_set, status_lines,
                 hdr_buffer, wire, handler_calls, callback_calls, close_connection,
                 suppressed, suppressed_in_handler, error_response_failed,
                 calls_at_failure, writes_at_failure, rejected, raw_path, path_from>>

\* Line 53: isinstance(exc, (BrokenPipeError, ConnectionResetError)); the
\* same test selects the except clause of line 39.
IsClientDisconnectNever(e) == FALSE

IsClientDisconnect(e) == e = "bp"

\* Where control goes when the except clause ends without raising: after
\* line 89 handle_request returns to line 38; after lines 40/42 the request is over.
AfterExcept(site) == IF site = "inner" THEN "flush" ELSE "done"

\* Lines 70-72 catch what error_handler raises; lines 74-78 catch only
\* BrokenPipeError / ConnectionResetError from default_error_handler.
EscapesErrorResponse(configured, e) == ~configured /\ e = "other"

\* The except clauses: lines 39-40, and _handle_error (lines 50-78) called
\* from line 42 or line 89.
HandleError ==
  /\ hpc = "error"
  /\ UNCHANGED notConnVars
  /\ IF IsClientDisconnect(err_exc)
       THEN \* lines 39-40 / 53-55
            /\ close_connection' = TRUE
            /\ suppressed' = TRUE
            /\ suppressed_in_handler' = (suppressed_in_handler \/ err_site = "inner")
            /\ hpc' = AfterExcept(err_site)
            /\ err_exc' = "none"
            /\ err_site' = "none"
            /\ UNCHANGED <<path_set, path_from, status_lines, hdr_buffer, wire, callback_calls,
                           error_response_failed, calls_at_failure, writes_at_failure>>
       ELSE \* lines 56-78
            \E o \in (IF error_handler_set THEN UserOutcomes ELSE WriteOutcomes),
               f \in FlushOutcomes :
              LET who == IF error_handler_set THEN "error_handler" ELSE "default"
                  e == IF o.e # "none" THEN o.e ELSE f
              IN /\ path_set' = TRUE
                 /\ path_from' = IF path_set THEN path_from ELSE PathSource(raw_path)
                 /\ callback_calls' = callback_calls + 1
                 /\ Respond(who, o.p)
                 /\ close_connection' = (close_connection
                                           \/ (e # "none"
                                                 /\ ~EscapesErrorResponse(error_handler_set, e)))
                 /\ IF e # "none" /\ ~error_response_failed
                      THEN /\ error_response_failed' = TRUE
                           /\ calls_at_failure' = callback_calls + 1
                           /\ writes_at_failure' =
                                RespondStatusLines(o.p) + Len(RespondWire(who, o.p))
                      ELSE UNCHANGED <<error_response_failed, calls_at_failure,
                                       writes_at_failure>>
                 /\ IF EscapesErrorResponse(error_handler_set, e)
                      THEN IF err_site = "inner"
                             THEN \* raised inside line 89: caught by line 41
                                  /\ hpc' = "error"
                                  /\ err_exc' = e
                                  /\ err_site' = "outer"
                             ELSE \* raised inside line 42: leaves handle_one_request
                                  /\ hpc' = "escaped"
                                  /\ err_exc' = e
                                  /\ err_site' = "none"
                      ELSE /\ hpc' = AfterExcept(err_site)
                           /\ err_exc' = "none"
                           /\ err_site' = "none"
                 /\ UNCHANGED <<suppressed, suppressed_in_handler>>
  /\ UNCHANGED <<handler_set, error_handler_set, response_bound, handler_calls,
                 other_raised, rejected, raw_path>>

Next == ReadRequest \/ HandleRequest \/ FinalFlush \/ HandleError

Spec == ConnInit /\ [][Next]_vars

-----------------------------------------------------------------------------
(* ThreadPooledHTTPServer and HttpServer.start / stop: src/lib/http.py.      *)
(* The thread "start" runs HttpServer.start: serve_forever's accept loop,    *)
(* then the finally clause. The thread "stop" runs HttpServer.stop.          *)
(* Workers are the threads of the ThreadPoolExecutor.                        *)

\* The elements of a sequence.
Range(q) == {q[i] : i \in DOMAIN q}

\* Line 43: ThreadPoolExecutor(max_workers=max_workers) runs at most
\* max_workers work items at a time.
CanStartWorkerUnbounded == TRUE

CanStartWorker == Cardinality(running) < max_workers

\* Line 63: shutdown(wait=True) returns when every work item, queued or
\* running, has been run and the threads have ended.
ShutdownWaitDoneNoWait == TRUE

ShutdownWaitDone == queue = <<>> /\ running = {}

\* A server_close() has begun: its first statement closes the socket.
CloseStarted == ~sock_open

\* After start() built the server (lines 106-117) and entered serve_forever.
PoolInit ==
  /\ max_workers \in 1..MaxWorkers
  /\ sock_open = TRUE
  /\ executor = "active"
  /\ server_ref = TRUE
  /\ shutdown_requested = FALSE
  /\ tpc = [t \in Threads |-> IF t = "start" THEN "serve" ELSE "idle"]
  /\ accepted = 0
  /\ in_hand = 0
  /\ queue = <<>>
  /\ running = {}
  /\ finished = {}
  /\ request_closed = {}
  /\ dropped = {}
  /\ running_at_close = [t \in Threads |-> {}]
  /\ queued_at_close = [t \in Threads |-> {}]
  /\ accepted_after_close = FALSE
  /\ FileIdle
  /\ ConnIdle
  /\ ProxyIdle
  /\ ErrorIdle
  /\ StartIdle
  /\ RespIdle

\* serve_forever: get_request() accepts a connection (the socket is open and
\* the shutdown flag was not set when the loop tested it).
Accept ==
  /\ tpc["start"] = "serve"
  /\ UNCHANGED notPoolVars
  /\ sock_open
  /\ ~shutdown_requested
  /\ accepted < MaxConns
  /\ accepted' = accepted + 1
  /\ in_hand' = accepted + 1
  /\ accepted_after_close' = (accepted_after_close \/ CloseStarted)
  /\ tpc' = [tpc EXCEPT !["start"] = "process"]
  /\ UNCHANGED <<max_workers, sock_open, executor, server_ref, shutdown_requested, queue,
                 running, finished, request_closed, dropped, running_at_close,
                 queued_at_close>>

\* Line 49: if self._executor is not None. When it is None process_request
\* returns without handing the connection to anyone.
ProcessRequestCheck ==
  /\ tpc["start"] = "process"
  /\ UNCHANGED notPoolVars
  /\ IF executor = "none"
       THEN /\ dropped' = dropped \cup {in_hand}
            /\ in_hand' = 0
            /\ tpc' = [tpc EXCEPT !["start"] = "serve"]
       ELSE /\ tpc' = [tpc EXCEPT !["start"] = "submit"]
            /\ UNCHANGED <<dropped, in_hand>>
  /\ UNCHANGED <<max_workers, sock_open, executor, server_ref, shutdown_requested,
                 accepted, queue, running, finished, request_closed, running_at_close,
                 queued_at_close, accepted_after_close>>

\* Line 50: self._executor.submit(...). On a live executor the work item is
\* queued. After shutdown() submit raises RuntimeError, and on None the
\* attribute access raises: the accept loop then closes the connection
\* (shutdown_request) without it ever being handled.
ProcessRequestSubmit ==
  /\ tpc["start"] = "submit"
  /\ UNCHANGED notPoolVars
  /\ IF executor = "active"
       THEN /\ queue' = Append(queue, in_hand)
            /\ UNCHANGED <<dropped, request_closed>>
       ELSE /\ dropped' = dropped \cup {in_hand}
            /\ request_closed' = request_closed \cup {in_hand}
            /\ UNCHANGED queue
  /\ in_hand' = 0
  /\ tpc' = [tpc EXCEPT !["start"] = "serve"]
  /\ UNCHANGED <<max_workers, sock_open, executor, server_ref, shutdown_requested,
                 accepted, running, finished, running_at_close, queued_at_close,
                 accepted_after_close>>

\* A pool thread takes the next work item: _process_request_thread begins.
WorkerStart ==
  /\ queue # <<>>
  /\ UNCHANGED notPoolVars
  /\ CanStartWorker
  /\ running' = running \cup {Head(queue)}
  /\ queue' = Tail(queue)
  /\ UNCHANGED <<max_workers, sock_open, executor, server_ref, shutdown_requested, tpc,
                 accepted, in_hand, finished, request_closed, dropped, running_at_close,
                 queued_at_close, accepted_after_close>>

\* Lines 56-57: finish_request ends. When it returns, shutdown_request
\* follows; when it raises, line 57 is not reached.
WorkerFinish ==
  /\ running # {}
  /\ UNCHANGED notPoolVars
  /\ \E c \in running, raised \in BOOLEAN :
       /\ running' = running \ {c}
       /\ finished' = finished \cup {c}
       /\ request_closed' = IF raised THEN request_closed ELSE request_closed \cup {c}
  /\ UNCHANGED <<max_workers, sock_open, executor, server_ref, shutdown_requested, tpc,
                 accepted, in_hand, queue, dropped, running_at_close, queued_at_close,
                 accepted_after_close>>

\* Lines 98-103: SIGINT/SIGTERM; the handler's thread calls server.shutdown().
SignalShutdown ==
  /\ server_ref
  /\ UNCHANGED notPoolVars
  /\ ~shutdown_requested
  /\ tpc["start"] \in {"serve", "process", "submit"}
  /\ shutdown_requested' = TRUE
  /\ UNCHANGED <<max_workers, sock_open, executor, server_ref, tpc, accepted, in_hand,
                 queue, running, finished, request_closed, dropped, running_at_close,
                 queued_at_close, accepted_after_close>>

\* serve_forever sees the shutdown flag and returns; start() reaches its
\* finally clause (line 130).
ServeExit ==
  /\ tpc["start"] = "serve"
  /\ UNCHANGED notPoolVars
  /\ shutdown_requested
  /\ tpc' = [tpc EXCEPT !["start"] = "check_server"]
  /\ UNCHANGED <<max_workers, sock_open, executor, server_ref, shutdown_requested,
                 accepted, in_hand, queue, running, finished, request_closed, dropped,
                 running_at_close, queued_at_close, accepted_after_close>>

\* Line 135: stop() is called from another thread.
StopCall ==
  /\ tpc["stop"] = "idle"
  /\ UNCHANGED notPoolVars
  /\ tpc' = [tpc EXCEPT !["stop"] = "check_server"]
  /\ UNCHANGED <<max_workers, sock_open, executor, server_ref, shutdown_requested,
                 accepted, in_hand, queue, running, finished, request_closed, dropped,
                 running_at_close, queued_at_close, accepted_after_close>>

\* Lines 131 / 136: if self.server is not None.
CheckServer(t) ==
  /\ tpc[t] = "check_server"
  /\ UNCHANGED notPoolVars
  /\ tpc' = [tpc EXCEPT ![t] = IF server_ref THEN "close_socket" ELSE "returned"]
  /\ UNCHANGED <<max_workers, sock_open, executor, server_ref, shutdown_requested,
                 accepted, in_hand, queue, running, finished, request_closed, dropped,
                 running_at_close, queued_at_close, accepted_after_close>>

\* Lines 132 / 137 and 61: self.server.server_close() reads self.server again
\* (AttributeError when it is None by now), then super().server_close()
\* closes the listening socket.
CloseSocket(t) ==
  /\ tpc[t] = "close_socket"
  /\ UNCHANGED notPoolVars
  /\ IF server_ref
       THEN /\ sock_open' = FALSE
            /\ running_at_close' = [running_at_close EXCEPT ![t] = running]
            /\ queued_at_close' = [queued_at_close EXCEPT ![t] = Range(queue)]
            /\ tpc' = [tpc EXCEPT ![t] = "check_executor"]
       ELSE /\ tpc' = [tpc EXCEPT ![t] = "raised"]
            /\ UNCHANGED <<sock_open, running_at_close, queued_at_close>>
  /\ UNCHANGED <<max_workers, executor, server_ref, shutdown_requested, accepted, in_hand,
                 queue, running, finished, request_closed, dropped, accepted_after_close>>

\* Line 62: if self._executor is not None.
CheckExecutor(t) ==
  /\ tpc[t] = "check_executor"
  /\ UNCHANGED notPoolVars
  /\ tpc' = [tpc EXCEPT ![t] = IF executor # "none" THEN "shutdown" ELSE "clear_server"]
  /\ UNCHANGED <<max_workers, sock_open, executor, server_ref, shutdown_requested,
                 accepted, in_hand, queue, running, finished, request_closed, dropped,
                 running_at_close, queued_at_close, accepted_after_close>>

\* Line 63, first half: self._executor.shutdown(...) marks the executor shut
\* down (AttributeError when self._executor is None by now).
ExecutorShutdown(t) ==
  /\ tpc[t] = "shutdown"
  /\ UNCHANGED notPoolVars
  /\ IF executor = "none"
       THEN tpc' = [tpc EXCEPT ![t] = "raised"] /\ UNCHANGED executor
       ELSE executor' = "shutdown" /\ tpc' = [tpc EXCEPT ![t] = "wait"]
  /\ UNCHANGED <<max_workers, sock_open, server_ref, shutdown_requested, accepted, in_hand,
                 queue, running, finished, request_closed, dropped, running_at_close,
                 queued_at_close, accepted_after_close>>

\* Lines 63-64: shutdown(wait=True) returns, then self._executor = None;
\* server_close() returns.
ExecutorWait(t) ==
  /\ tpc[t] = "wait"
  /\ UNCHANGED notPoolVars
  /\ ShutdownWaitDone
  /\ executor' = "none"
  /\ tpc' = [tpc EXCEPT ![t] = "clear_server"]
  /\ UNCHANGED <<max_workers, sock_open, server_ref, shutdown_requested, accepted, in_hand,
                 queue, running, finished, request_closed, dropped, running_at_close,
                 queued_at_close, accepted_after_close>>

\* Lines 133 / 138: self.server = None.
ClearServer(t) ==
  /\ tpc[t] = "clear_server"
  /\ UNCHANGED notPoolVars
  /\ server_ref' = FALSE
  /\ tpc' = [tpc EXCEPT ![t] = "returned"]
  /\ UNCHANGED <<max_workers, sock_open, executor, shutdown_requested, accepted, in_hand,
                 queue, running, finished, request_closed, dropped, running_at_close,
                 queued_at_close, accepted_after_close>>

CloseStep ==
  \E t \in Threads :
    \/ CheckServer(t)
    \/ CloseSocket(t)
    \/ CheckExecutor(t)
    \/ ExecutorShutdown(t)
    \/ ExecutorWait(t)
    \/ ClearServer(t)

PoolNext ==
  \/ Accept
  \/ ProcessRequestCheck
  \/ ProcessRequestSubmit
  \/ WorkerStart
  \/ WorkerFinish
  \/ SignalShutdown
  \/ ServeExit
  \/ StopCall
  \/ CloseStep

PoolSpec == PoolInit /\ [][PoolNext]_vars

-----------------------------------------------------------------------------
(* The Headers store (src/lib/headers.py), ResponseHelper.streamProxy        *)
(* (src/lib/response.py lines 109-167) and fetch (src/lib/fetch.py).         *)
(* A header is a pair <<name, value>>; a dict is a set of such pairs with    *)
(* one pair per key.                                                         *)

\* headers.py lines 8-12.
HOP_BY_HOPWithoutTE ==
  {"connection", "keep-alive", "proxy-authenticate", "proxy-authorization",
   "trailers", "transfer-encoding", "upgrade", "host", "accept-encoding",
   "content-length"}

HOP_BY_HOP ==
  {"connection", "keep-alive", "proxy-authenticate", "proxy-authorization",
   "te", "trailers", "transfer-encoding", "upgrade", "host", "accept-encoding",
   "content-length"}

\* fetch.py lines 11-14.
FetchHopByHop ==
  {"connection", "keep-alive", "proxy-authenticate", "proxy-authorization",
   "te", "trailers", "transfer-encoding", "upgrade", "host", "content-length"}

\* The header names upstreams send and callers pass, in the model.
UpNames == {"Connection", "TE", "X-Up", "Accept-Ranges", "accept-ranges"}

CallerNames == {"Connection", "te", "X-Mine", "Host"}

\* str.lower on those names.
Lower(name) ==
  CASE name = "Connection" -> "connection"
    [] name = "TE" -> "te"
    [] name = "X-Up" -> "x-up"
    [] name = "X-Mine" -> "x-mine"
    [] name = "Accept-Ranges" -> "accept-ranges"
    [] name = "Host" -> "host"
    [] OTHER -> name

\* d[k] = v
DictSet(d, k, v) == {q \in d : q[1] # k} \cup {<<k, v>>}

\* Headers.__init__ (headers.py lines 35-51): keys are stored lower-cased.
RECURSIVE HeadersInit(_)
HeadersInit(init) ==
  IF init = <<>> THEN {}
  ELSE LET n == Len(init)
       IN DictSet(HeadersInit(SubSeq(init, 1, n - 1)), Lower(init[n][1]), init[n][2])

\* Headers.to_proxy_dict (headers.py lines 87-89): the keys are compared as
\* stored.
to_proxy_dict(h) == {q \in h : q[1] \notin HOP_BY_HOP}

UpBodies == {[i \in 1..n |-> i] : n \in 0..MaxUpBody}

UpHeaderSeqs == SeqsUpTo(UpNames \X {"up"}, MaxUpHeaders)

\* What urlopen does: it returns a response for a 2xx status, raises HTTPError
\* for another status, URLError for a failure before the request was sent
\* (name resolution, refused connection, connect timeout), TimeoutError when
\* the response does not arrive in time. A stalling upstream stops sending
\* before the last byte of the body.
UpstreamOutcomes ==
  {[kind |-> "response", status |-> st, reason |-> "", headers |-> h, body |-> b,
    stall |-> sl] :
     st \in {200, 206}, h \in UpHeaderSeqs, b \in UpBodies, sl \in BOOLEAN}
  \cup {[kind |-> "http_error", status |-> st, reason |-> "", headers |-> h, body |-> b,
         stall |-> FALSE] :
          st \in {404, 500}, h \in UpHeaderSeqs, b \in UpBodies}
  \cup {[kind |-> "url_error", status |-> 0, reason |-> r, headers |-> <<>>,
         body |-> <<>>, stall |-> FALSE] :
          r \in {"name resolution", "connection refused", "timed out"}}
  \cup {[kind |-> "timeout", status |-> 0, reason |-> "", headers |-> <<>>,
         body |-> <<>>, stall |-> FALSE]}

HeadersArgs ==
  {[kind |-> "None", init |-> <<>>], [kind |-> "dict", init |-> <<>>]}
    \cup {[kind |-> "Headers", init |-> i] :
            i \in SeqsUpTo(CallerNames \X {"c"}, MaxCallerHeaders)}

ProxyInit ==
  /\ ppc = "call"
  /\ px_op \in {"streamProxy", "fetch"}
  /\ up \in UpstreamOutcomes
  /\ (up.stall => up.body # <<>>)
  /\ px_headers_arg \in HeadersArgs
  /\ px_chunk_size \in 1..MaxProxyChunk
  /\ (px_op = "fetch" =>
        px_headers_arg = [kind |-> "dict", init |-> <<>>] /\ px_chunk_size = 1)
  /\ px_forwarded = {}
  /\ px_requested = FALSE
  /\ upstream_bound = FALSE
  /\ px_status = <<>>
  /\ px_resp_headers = <<>>
  /\ px_body = <<>>
  /\ px_read = 0
  /\ px_exc = "none"
  /\ fetch_result = <<>>
  /\ FileIdle
  /\ ConnIdle
  /\ PoolIdle
  /\ ErrorIdle
  /\ StartIdle
  /\ RespIdle

\* response.py lines 129-130: req_headers = headers.to_proxy_dict(). Only a
\* Headers object has that method.
ProxyCall ==
  /\ ppc = "call"
  /\ UNCHANGED notProxyVars
  /\ px_op = "streamProxy"
  /\ IF px_headers_arg.kind = "Headers"
       THEN /\ px_forwarded' = to_proxy_dict(HeadersInit(px_headers_arg.init))
            /\ ppc' = "request"
            /\ UNCHANGED px_exc
       ELSE /\ px_exc' = "AttributeError"
            /\ ppc' = "raised"
            /\ UNCHANGED px_forwarded
  /\ UNCHANGED <<px_op, px_headers_arg, px_chunk_size, up, px_requested, upstream_bound,
                 px_status, px_resp_headers, px_body, px_read, fetch_result>>

\* response.py lines 132-148: the request and its except clauses. The name
\* bound by "except HTTPError as upstream" is deleted when that clause ends.
ProxyRequest ==
  /\ ppc = "request"
  /\ UNCHANGED notProxyVars
  /\ px_requested' = TRUE
  /\ CASE up.kind = "response" ->
            /\ upstream_bound' = TRUE
            /\ ppc' = "relay"
            /\ UNCHANGED <<px_status, px_resp_headers, px_body>>
       [] up.kind = "http_error" ->
            /\ upstream_bound' = FALSE
            /\ ppc' = "relay"
            /\ UNCHANGED <<px_status, px_resp_headers, px_body>>
       [] up.kind = "url_error" ->
            /\ px_status' = px_status \o <<502>>
            /\ px_resp_headers' = <<<<"Content-Type", "text/plain">>>>
            /\ px_body' = <<<<"Bad Gateway: ", up.reason>>>>
            /\ ppc' = "done"
            /\ UNCHANGED upstream_bound
       [] up.kind = "timeout" ->
            /\ px_status' = px_status \o <<504>>
            /\ px_resp_headers' = <<<<"Content-Type", "text/plain">>>>
            /\ px_body' = <<"Gateway Timeout">>
            /\ ppc' = "done"
            /\ UNCHANGED upstream_bound
  /\ UNCHANGED <<px_op, px_headers_arg, px_chunk_size, up, px_forwarded, px_read, px_exc,
                 fetch_result>>

\* response.py lines 152-157: the upstream headers that are not hop-by-hop,
\* then Accept-Ranges: bytes when the upstream sent none.
RelayHeaders(hs) ==
  SelectSeq(hs, LAMBDA h : Lower(h[1]) \notin HOP_BY_HOP)
    \o (IF \E i \in DOMAIN hs : Lower(hs[i][1]) = "accept-ranges"
          THEN <<>> ELSE <<<<"Accept-Ranges", "bytes">>>>)

\* response.py lines 151-158: upstream.status is read first.
ProxyRelayHeaders ==
  /\ ppc = "relay"
  /\ UNCHANGED notProxyVars
  /\ IF upstream_bound
       THEN /\ px_status' = px_status \o <<up.status>>
            /\ px_resp_headers' = RelayHeaders(up.headers)
            /\ ppc' = "body"
            /\ UNCHANGED px_exc
       ELSE /\ px_exc' = "UnboundLocalError"
            /\ ppc' = "raised"
            /\ UNCHANGED <<px_status, px_resp_headers>>
  /\ UNCHANGED <<px_op, px_headers_arg, px_chunk_size, up, px_forwarded, px_requested,
                 upstream_bound, px_body, px_read, fetch_result>>

\* response.py lines 161-167: one turn of the relay loop. read(n) returns n
\* bytes, or what is left of the body; it raises TimeoutError when the
\* upstream stalls before it can.
ProxyBodyStep ==
  /\ ppc = "body"
  /\ UNCHANGED notProxyVars
  /\ LET want == Min(px_chunk_size, Len(up.body) - px_read)
         avail == IF up.stall THEN Len(up.body) - 1 ELSE Len(up.body)
     IN IF px_read + want > avail
          THEN /\ px_exc' = "TimeoutError"
               /\ ppc' = "raised"
               /\ UNCHANGED <<px_body, px_read>>
          ELSE IF want = 0
            THEN /\ ppc' = "done"
                 /\ UNCHANGED <<px_body, px_read, px_exc>>
          ELSE /\ px_body' = px_body \o SubSeq(up.body, px_read + 1, px_read + want)
               /\ px_read' = px_read + want
               /\ ppc' = "body"
               /\ UNCHANGED px_exc
  /\ UNCHANGED <<px_op, px_headers_arg, px_chunk_size, up, px_forwarded, px_requested,
                 upstream_bound, px_status, px_resp_headers, fetch_result>>

\* Response.__init__ (response.py lines 29-48) for a body that is neither a
\* dict, a list nor a str: the body is stored as given, no Content-Type.
ResponseInit(body, status) == [status |-> status, headers |-> {}, body |-> body]

\* fetch.py lines 37-39 / 44-46: result.headers[key] = value for the headers
\* that are not hop-by-hop.
RECURSIVE FetchHeaders(_)
FetchHeaders(hs) ==
  IF hs = <<>> THEN {}
  ELSE LET n == Len(hs)
           rest == FetchHeaders(SubSeq(hs, 1, n - 1))
       IN IF Lower(hs[n][1]) \notin FetchHopByHop
            THEN DictSet(rest, hs[n][1], hs[n][2]) ELSE rest

\* fetch.py lines 36-41 and 43-48: Response(resp.status) passes the status as
\* the first positional argument, which is the body; status keeps its
\* default 200.
FetchResult(u) ==
  [ResponseInit(u.status, 200) EXCEPT !.headers = FetchHeaders(u.headers),
                                      !.body = u.body]

\* fetch.py lines 32-52. Response has no set_body, so lines 50 and 52 raise
\* AttributeError; a read that times out (line 40) reaches line 52 as well.
FetchCall ==
  /\ ppc = "call"
  /\ UNCHANGED notProxyVars
  /\ px_op = "fetch"
  /\ px_requested' = TRUE
  /\ IF up.kind \in {"response", "http_error"} /\ ~up.stall
       THEN /\ fetch_result' = FetchResult(up)
            /\ ppc' = "done"
            /\ UNCHANGED px_exc
       ELSE /\ px_exc' = "AttributeError"
            /\ ppc' = "raised"
            /\ UNCHANGED fetch_result
  /\ UNCHANGED <<px_op, px_headers_arg, px_chunk_size, up, px_forwarded, upstream_bound,
                 px_status, px_resp_headers, px_body, px_read>>

ProxyNext ==
  \/ ProxyCall
  \/ ProxyRequest
  \/ ProxyRelayHeaders
  \/ ProxyBodyStep
  \/ FetchCall

ProxySpec == ProxyInit /\ [][ProxyNext]_vars

-----------------------------------------------------------------------------
(* HttpServerError and default_error_handler: src/lib/error.py; the call of  *)
(* from_exception in _handle_error: src/lib/handler.py line 60.              *)

\* The status codes exceptions and callers use in the model.
ErrStatuses == {400, 404, 500, 503}

\* The exceptions a handler raises: one that carries no HTTP status, or an
\* HttpServerError built with a status_code and a message.
HandlerExceptions ==
  {[cls |-> "ValueError", status_code |-> 0, text |-> t] : t \in {"boom", "secret"}}
    \cup {[cls |-> "HttpServerError", status_code |-> st, text |-> t] :
            st \in ErrStatuses, t \in {"boom", "secret"}}

\* The arguments of from_exception besides exc. _handle_error passes only
\* debug=False; other callers may pass any.
FromExceptionArgs(caller) ==
  IF caller = "_handle_error"
    THEN {[status_code |-> 500, message |-> "None", debug |-> FALSE]}
    ELSE [status_code : {500, 404}, message : {"None", "custom"}, debug : BOOLEAN]

\* error.py lines 23-34.
HttpServerErrorInit(status_code, message, exception, debug) ==
  [status_code |-> status_code, message |-> message, exception |-> exception,
   debug |-> debug]

\* error.py lines 36-54: the record's status is the status_code argument,
\* whatever exc is; the message is the exception's text only under debug.
from_exceptionDebugText(exc, status_code, message, debug) ==
  HttpServerErrorInit(
    status_code,
    IF message = "None" THEN exc.text ELSE message,
    exc, debug)

from_exception(exc, status_code, message, debug) ==
  HttpServerErrorInit(
    status_code,
    IF message = "None"
      THEN (IF debug THEN exc.text ELSE "Internal Server Error")
      ELSE message,
    exc, debug)

ErrorInit ==
  /\ epc = "build"
  /\ er_exc \in HandlerExceptions
  /\ er_caller \in {"_handle_error", "user"}
  /\ er_args \in FromExceptionArgs(er_caller)
  /\ er_configured \in BOOLEAN
  /\ er_error = <<>>
  /\ er_callback_arg = <<>>
  /\ er_page = <<>>
  /\ FileIdle
  /\ ConnIdle
  /\ PoolIdle
  /\ ProxyIdle
  /\ StartIdle
  /\ RespIdle

\* handler.py line 60 (or a direct call): the record is built.
BuildErrorRecord ==
  /\ epc = "build"
  /\ UNCHANGED notErrorVars
  /\ er_error' = from_exception(er_exc, er_args.status_code, er_args.message,
                                er_args.debug)
  /\ epc' = "deliver"
  /\ UNCHANGED <<er_exc, er_caller, er_args, er_configured, er_callback_arg, er_page>>

\* error.py lines 63-72: the page's status, title and message.
default_error_handler(error) ==
  [status |-> error.status_code, title |-> <<"Error ", error.status_code>>,
   message |-> error.message]

\* handler.py lines 62-76: the record goes to the configured callback, or the
\* default page is sent.
DeliverErrorRecord ==
  /\ epc = "deliver"
  /\ UNCHANGED notErrorVars
  /\ IF er_configured
       THEN er_callback_arg' = Append(er_callback_arg, er_error) /\ UNCHANGED er_page
       ELSE er_page' = default_error_handler(er_error) /\ UNCHANGED er_callback_arg
  /\ epc' = "done"
  /\ UNCHANGED <<er_exc, er_caller, er_args, er_configured, er_error>>

ErrorNext == BuildErrorRecord \/ DeliverErrorRecord

ErrorSpec == ErrorInit /\ [][ErrorNext]_vars

-----------------------------------------------------------------------------
(* HttpServer.start, binding and its retries: src/lib/http.py lines 95-133.  *)
(* start() calls itself for a retry; st_retries is the _retries of the       *)
(* innermost call, and the calls below it wait inside their except clause.   *)

\* Line 96.
max_retries == 2

\* Line 119: the errno the code takes for "address already in use".
AddrInUseErrno == 48

\* The errno a bind on a used address really gives: 48 on macOS and the BSDs,
\* 98 on Linux.
EADDRINUSE(platform) == IF platform = "darwin" THEN 48 ELSE 98

\* The OSErrors a bind may raise: address in use, permission denied.
BindErrnos(platform) == {EADDRINUSE(platform), 13}

\* The OSError serve_forever may raise: bad file descriptor.
ServeErrnos == {9}

\* Line 119: e.errno == 48 and _retries < max_retries.
ShouldRetryUnbounded(errno, retries) == errno = AddrInUseErrno

ShouldRetry(errno, retries) == errno = AddrInUseErrno /\ retries < max_retries

StartInit ==
  /\ st_pc = "bind"
  /\ st_platform \in {"linux", "darwin"}
  /\ st_main_thread \in BOOLEAN
  /\ st_retries = 0
  /\ st_exc = "none"
  /\ st_errno = 0
  /\ st_server = FALSE
  /\ st_log = <<>>
  /\ FileIdle
  /\ ConnIdle
  /\ PoolIdle
  /\ ProxyIdle
  /\ ErrorIdle
  /\ RespIdle

\* Lines 106-110: the server is built, which binds the port. On a failure
\* self.server is not assigned.
Bind ==
  /\ st_pc = "bind"
  /\ UNCHANGED notStartVars
  /\ \E e \in {0} \cup BindErrnos(st_platform) :
       /\ st_log' = Append(st_log, <<"bind", e>>)
       /\ st_errno' = e
       /\ IF e = 0
            THEN st_server' = TRUE /\ st_pc' = "signal" /\ st_exc' = "none"
            ELSE UNCHANGED st_server /\ st_pc' = "except" /\ st_exc' = "OSError"
  /\ UNCHANGED <<st_platform, st_main_thread, st_retries>>

\* Lines 113-114: signal.signal raises ValueError outside the main thread;
\* no except clause of start() catches it.
SignalSetup ==
  /\ st_pc = "signal"
  /\ UNCHANGED notStartVars
  /\ IF st_main_thread
       THEN st_pc' = "serve" /\ UNCHANGED st_exc
       ELSE st_pc' = "finally" /\ st_exc' = "ValueError"
  /\ UNCHANGED <<st_platform, st_main_thread, st_retries, st_errno, st_server, st_log>>

\* Line 117: serve_forever returns after shutdown(), or raises.
Serve ==
  /\ st_pc = "serve"
  /\ UNCHANGED notStartVars
  /\ \E e \in {0} \cup ServeErrnos :
       /\ st_log' = Append(st_log, <<"serve", e>>)
       /\ st_errno' = e
       /\ st_exc' = IF e = 0 THEN "none" ELSE "OSError"
       /\ st_pc' = IF e = 0 THEN "finally" ELSE "except"
  /\ UNCHANGED <<st_platform, st_main_thread, st_retries, st_server>>

\* Lines 118-119 and 128-129: retry, or raise again.
Except ==
  /\ st_pc = "except"
  /\ UNCHANGED notStartVars
  /\ st_pc' = IF ShouldRetry(st_errno, st_retries) THEN "kill" ELSE "finally"
  /\ UNCHANGED <<st_platform, st_main_thread, st_retries, st_exc, st_errno, st_server,
                 st_log>>

\* Lines 120-121 and 125-127: kill_process_on_port; when it freed nothing the
\* failure is raised again.
Kill ==
  /\ st_pc = "kill"
  /\ UNCHANGED notStartVars
  /\ \E freed \in BOOLEAN :
       /\ st_log' = Append(st_log, <<"kill", freed>>)
       /\ st_pc' = IF freed THEN "sleep" ELSE "finally"
  /\ UNCHANGED <<st_platform, st_main_thread, st_retries, st_exc, st_errno, st_server>>

\* Lines 122-124: sleep, then self.start(_retries=_retries + 1).
SleepAndRetry ==
  /\ st_pc = "sleep"
  /\ UNCHANGED notStartVars
  /\ st_log' = Append(st_log, <<"sleep">>)
  /\ st_retries' = st_retries + 1
  /\ st_errno' = 0
  /\ st_exc' = "none"
  /\ st_pc' = "bind"
  /\ UNCHANGED <<st_platform, st_main_thread, st_server>>

\* Lines 130-133: the finally clause of the innermost call; then the call
\* returns or raises into the except clause of the call below it, which
\* leaves through its own finally clause.
Finally ==
  /\ st_pc = "finally"
  /\ UNCHANGED notStartVars
  /\ st_log' = IF st_server THEN Append(st_log, <<"server_close">>) ELSE st_log
  /\ st_server' = FALSE
  /\ IF st_retries > 0
       THEN st_retries' = st_retries - 1 /\ st_pc' = "finally"
       ELSE UNCHANGED st_retries
              /\ st_pc' = (IF st_exc = "none" THEN "returned" ELSE "raised")
  /\ UNCHANGED <<st_platform, st_main_thread, st_exc, st_errno>>

StartNext == Bind \/ SignalSetup \/ Serve \/ Except \/ Kill \/ SleepAndRetry \/ Finally

StartSpec == StartInit /\ [][StartNext]_vars

-----------------------------------------------------------------------------
(* One connection from process_request to the end of its response:          *)
(* src/lib/http.py lines 45-57, Response and the response methods of        *)
(* src/lib/response.py lines 29-107, and the writes of file(), lines 258-304. *)

MaxRespHeaders == 2

DirectMethods == {"html", "text", "json", "redirect", "rewrite"}

\* The header names a caller gives to Response(headers=...).
RespNames == {"Content-Type", "content-type", "X-Custom"}

\* A dict of headers: its keys are distinct as written (letter case counts).
RespHeaderDicts ==
  {h \in SeqsUpTo(RespNames \X {"caller"}, MaxRespHeaders) :
     \A i, j \in 1..Len(h) : i # j => h[i][1] # h[j][1]}

\* The body shapes each method accepts.
BodyShapes(method) ==
  CASE method = "html" -> {"str", "bytes"}
    [] method = "text" -> {"str"}
    [] method = "json" -> {"dict", "list"}
    [] method = "redirect" -> {"none"}
    [] method = "rewrite" -> {"dict", "list", "str", "bytes"}
    [] method = "file" -> {"file"}

\* The status arguments used: file() sends Content-Range for 206.
MethodStatuses(method) == IF method = "file" THEN {"200", "206"} ELSE {"200", "404"}

\* `key in self.headers` on a dict.
InDict(h, key) == \E i \in 1..Len(h) : h[i][1] = key

\* Lines 29-48: Response.__init__ with a headers dict. The Content-Type is
\* inferred for dict / list / str bodies when the dict has no key spelled
\* "Content-Type"; a bytes body gets none.
InferredType(body) ==
  IF body \in {"dict", "list"} THEN "application/json; charset=utf-8"
  ELSE IF body = "str" THEN "text/plain; charset=utf-8"
  ELSE "none"

ResponseWithHeaders(body, status, headers) ==
  [status |-> status,
   headers |-> IF InferredType(body) # "none" /\ ~InDict(headers, "Content-Type")
                 THEN Append(headers, <<"Content-Type", InferredType(body)>>)
                 ELSE headers,
   body |-> body]

\* The send_header calls of each method (lines 65, 73, 81, 89, 104-105, and
\* 260-265 for file).
MethodHeaders(method, status, resp) ==
  CASE method = "html" -> <<<<"Content-Type", "text/html; charset=utf-8">>>>
    [] method = "text" -> <<<<"Content-Type", "text/plain; charset=utf-8">>>>
    [] method = "json" -> <<<<"Content-Type", "application/json; charset=utf-8">>>>
    [] method = "redirect" -> <<<<"Location", "location">>>>
    [] method = "rewrite" -> resp.headers
    [] method = "file" ->
         <<<<"Content-Type", "content_type">>, <<"Content-Length", "content_length">>,
           <<"Accept-Ranges", "bytes">>>>
           \o (IF status = "206" THEN <<<<"Content-Range", "range">>>> ELSE <<>>)

\* Whether the method writes a body after end_headers (redirect does not).
WritesBody(method) == method # "redirect"

Event(ev, name, value) == [ev |-> ev, name |-> name, value |-> value]

\* http.py line 50: one work item is queued for the connection.
Submit(tasks) == tasks + 1

\* end_headers(): the blank line is added to the header buffer and the buffer
\* is written to wfile, which is unbuffered (wbufsize = 0): it is on the socket.
EndHeadersKeepsBuffer(socket, buffer) == socket

EndHeaders(socket, buffer) == socket \o buffer \o <<Event("end_headers", "", "")>>

ResponseMethodInit ==
  /\ rpc = "accept"
  /\ rs_tasks = 0
  /\ rs_workers = 0
  /\ rs_method \in DirectMethods \cup {"file"}
  /\ rs_body \in BodyShapes(rs_method)
  /\ rs_status \in MethodStatuses(rs_method)
  /\ rs_mode \in (IF rs_method = "file" THEN Modes ELSE {"none"})
  /\ rs_headers_arg \in (IF rs_method = "rewrite" THEN RespHeaderDicts ELSE {<<>>})
  /\ rs_resp = <<>>
  /\ rs_buffer = <<>>
  /\ rs_out = <<>>
  /\ FileIdle
  /\ ConnIdle
  /\ PoolIdle
  /\ ProxyIdle
  /\ ErrorIdle
  /\ StartIdle

\* http.py lines 45-50: process_request on a live executor.
RespProcessRequest ==
  /\ rpc = "accept"
  /\ UNCHANGED notRespVars
  /\ rs_tasks' = Submit(rs_tasks)
  /\ rpc' = "queued"
  /\ UNCHANGED <<rs_workers, rs_method, rs_body, rs_status, rs_mode, rs_headers_arg,
                 rs_resp, rs_buffer, rs_out>>

\* http.py lines 52-56: a pool thread takes a work item of the connection and
\* finish_request runs the handler on it.
RespWorkerStart ==
  /\ rs_tasks > 0
  /\ UNCHANGED notRespVars
  /\ rs_tasks' = rs_tasks - 1
  /\ rs_workers' = rs_workers + 1
  /\ rpc' = IF rpc = "queued" THEN "call" ELSE rpc
  /\ UNCHANGED <<rs_method, rs_body, rs_status, rs_mode, rs_headers_arg, rs_resp,
                 rs_buffer, rs_out>>

\* The handler's Response(...) for rewrite; the other methods take their
\* arguments directly.
RespCall ==
  /\ rpc = "call"
  /\ UNCHANGED notRespVars
  /\ rs_resp' = IF rs_method = "rewrite"
                  THEN ResponseWithHeaders(rs_body, rs_status, rs_headers_arg)
                  ELSE <<>>
  /\ rpc' = "status"
  /\ UNCHANGED <<rs_tasks, rs_workers, rs_method, rs_body, rs_status, rs_mode,
                 rs_headers_arg, rs_buffer, rs_out>>

\* r.send_response(status): the status line goes to the header buffer.
RespSendResponse ==
  /\ rpc = "status"
  /\ UNCHANGED notRespVars
  /\ rs_buffer' = Append(rs_buffer,
                         Event("status", "",
                               IF rs_method = "rewrite" THEN rs_resp.status ELSE rs_status))
  /\ rpc' = "headers"
  /\ UNCHANGED <<rs_tasks, rs_workers, rs_method, rs_body, rs_status, rs_mode,
                 rs_headers_arg, rs_resp, rs_out>>

\* r.send_header(...) for each header of the method: to the header buffer.
RespSendHeaders ==
  /\ rpc = "headers"
  /\ UNCHANGED notRespVars
  /\ LET hs == MethodHeaders(rs_method, rs_status, rs_resp)
     IN rs_buffer' = rs_buffer \o [i \in 1..Len(hs) |-> Event("header", hs[i][1], hs[i][2])]
  /\ rpc' = "end"
  /\ UNCHANGED <<rs_tasks, rs_workers, rs_method, rs_body, rs_status, rs_mode,
                 rs_headers_arg, rs_resp, rs_out>>

\* r.end_headers()
RespEndHeaders ==
  /\ rpc = "end"
  /\ UNCHANGED notRespVars
  /\ rs_out' = EndHeaders(rs_out, rs_buffer)
  /\ rs_buffer' = <<>>
  /\ rpc' = IF WritesBody(rs_method) THEN "body" ELSE "done"
  /\ UNCHANGED <<rs_tasks, rs_workers, rs_method, rs_body, rs_status, rs_mode,
                 rs_headers_arg, rs_resp>>

\* r.wfile.write(body); for file() in sendfile mode, wfile.flush() (line 274)
\* and os.sendfile, which writes to the socket itself (lines 275-284).
RespWriteBody ==
  /\ rpc = "body"
  /\ UNCHANGED notRespVars
  /\ rs_out' = Append(rs_out, Event("body", IF rs_mode = "sendfile" THEN "sendfile"
                                                                   ELSE "write", rs_body))
  /\ rpc' = "done"
  /\ UNCHANGED <<rs_tasks, rs_workers, rs_method, rs_body, rs_status, rs_mode,
                 rs_headers_arg, rs_resp, rs_buffer>>

ResponseNext ==
  \/ RespProcessRequest
  \/ RespWorkerStart
  \/ RespCall
  \/ RespSendResponse
  \/ RespSendHeaders
  \/ RespEndHeaders
  \/ RespWriteBody

ResponseSpec == ResponseMethodInit /\ [][ResponseNext]_vars

-----------------------------------------------------------------------------
(* Properties of the worker pool and of shutdown. *)

\* C2: for any burst of accepted connections and any max_workers >= 1, the
\* number of handler invocations executing at the same time never exceeds
\* max_workers.
C2_RunningAtMostMaxWorkers == Cardinality(running) <= max_workers

\* A saturated pool: max_workers handlers run while another connection waits.
C2_Witness ==
  /\ max_workers = 2
  /\ Cardinality(running) = 2
  /\ queue # <<>>

\* C3: once a server_close() has started no connection is accepted, and a
\* server_close() returns only after every connection that was running or
\* queued when it started has had its handler run to completion.
C3_TwoPhaseShutdown ==
  /\ ~accepted_after_close
  /\ \A t \in Threads :
       tpc[t] \in {"clear_server", "returned"}
         => (running_at_close[t] \cup queued_at_close[t]) \subseteq finished

\* server_close() returned after having found one handler running and
\* another connection still in the queue; both were handled.
C3_Witness ==
  \E t \in Threads :
    /\ tpc[t] = "returned"
    /\ running_at_close[t] # {}
    /\ queued_at_close[t] \ running_at_close[t] # {}
    /\ (running_at_close[t] \cup queued_at_close[t]) \subseteq finished

\* C4: a connection passed to process_request is never dropped: it is in the
\* pool's queue, running in a worker, or handled.
C4_SubmittedNeverDropped ==
  \A c \in 1..accepted :
    c # in_hand => c \in Range(queue) \cup running \cup finished

-----------------------------------------------------------------------------
(* Properties of ResponseHelper.file. *)

\* The values sent for header `name`.
HeaderValues(hs, name) == {hs[i][2] : i \in {j \in DOMAIN hs : hs[j][1] = name}}

\* The spec after "bytes=", when the header has that prefix.
SpecOf(hdr) == DropFirst(hdr.text, 6)

\* The header reads bytes=A-B with A and B decimal numbers.
IsExplicitForm(hdr) ==
  /\ hdr.present
  /\ StartsWith(hdr.text, BytesPrefix)
  /\ LET sp == SpecOf(hdr)
         i == FirstIndex(sp, "-")
     IN i > 1 /\ AllDigits(SubSeq(sp, 1, i - 1)) /\ AllDigits(DropFirst(sp, i))

\* The header reads bytes=A- with A a decimal number.
IsOpenEndedForm(hdr) ==
  /\ hdr.present
  /\ StartsWith(hdr.text, BytesPrefix)
  /\ LET sp == SpecOf(hdr)
     IN Len(sp) >= 2 /\ sp[Len(sp)] = "-" /\ AllDigits(DropLast(sp, 1))

\* The header reads bytes=-N with N a decimal number.
IsSuffixForm(hdr) ==
  /\ hdr.present
  /\ StartsWith(hdr.text, BytesPrefix)
  /\ LET sp == SpecOf(hdr)
     IN Len(sp) >= 2 /\ sp[1] = "-" /\ AllDigits(DropFirst(sp, 1))

ExplicitA(hdr) == LET sp == SpecOf(hdr) IN DecVal(SubSeq(sp, 1, FirstIndex(sp, "-") - 1))

ExplicitB(hdr) == LET sp == SpecOf(hdr) IN DecVal(DropFirst(sp, FirstIndex(sp, "-")))

\* The request names a valid single range: bytes=A-B with 0 <= A <= B < size.
ValidExplicitRange ==
  /\ path_kind = "file"
  /\ chunk_size >= 1
  /\ IsExplicitForm(range_header)
  /\ ExplicitA(range_header) <= ExplicitB(range_header)
  /\ ExplicitB(range_header) < file_size

\* C8: for a file of size >= 1 and a Range header bytes=A-B with
\* 0 <= A <= B < size, file() answers 206 with Content-Range bytes A-B/size,
\* Content-Length B-A+1, and, once it has returned, a body equal to the
\* file's bytes in [A, B]; it does not raise, and what it has written so far
\* is always a prefix of that body.
C8_ValidRangeServed ==
  (ValidExplicitRange /\ fpc # "call") =>
    LET A == ExplicitA(range_header)
        B == ExplicitB(range_header)
        want == SubSeq(FileBytes(file_size), A + 1, B + 1)
    IN /\ fpc # "raised"
       /\ resp_status = <<206>>
       /\ HeaderValues(resp_headers, "Content-Range") = {<<"bytes", A, B, file_size>>}
       /\ HeaderValues(resp_headers, "Content-Length") = {B - A + 1}
       /\ Len(resp_body) <= Len(want)
       /\ resp_body = SubSeq(want, 1, Len(resp_body))
       /\ (fpc = "done" => resp_body = want)

\* A valid range that starts inside the file was served in full by sendfile.
C8_Witness ==
  /\ ValidExplicitRange
  /\ fpc = "done"
  /\ mode = "sendfile"
  /\ ExplicitA(range_header) = 1
  /\ ExplicitB(range_header) = 2
  /\ file_size = 3
  /\ sent = 2
  /\ resp_body = <<1, 2>>

\* The Range header is absent, or is none of bytes=A-B, bytes=A-, bytes=-N.
NoAcceptedRange ==
  ~(IsExplicitForm(range_header) \/ IsOpenEndedForm(range_header)
      \/ IsSuffixForm(range_header))

\* C9: with no Range header, or one that is not of the three accepted forms
\* or whose integers do not parse, file() answers with the caller's status,
\* Content-Length equal to the file size, no Content-Range, and the whole
\* file as body. Stated for callers whose status argument is not 206.
C9_UnparseableServesFullFile ==
  (path_kind = "file" /\ status_arg # 206 /\ NoAcceptedRange /\ fpc # "call") =>
    /\ fpc # "raised"
    /\ resp_status = <<status_arg>>
    /\ HeaderValues(resp_headers, "Content-Length") = {file_size}
    /\ HeaderValues(resp_headers, "Content-Range") = {}
    /\ (fpc = "done" => resp_body = FileBytes(file_size))

\* C10: for every parsed range with start > end or start >= size, file()
\* answers 416 with the single header Content-Range: bytes */size, writes no
\* body, and never opens the file.
C10_UnsatisfiableRange416 ==
  (fpc # "call" /\ range_parsed /\ (start > end \/ start >= file_size)) =>
    /\ fpc = "done"
    /\ resp_status = <<416>>
    /\ resp_headers = <<<<"Content-Range", <<"bytes", "*", file_size>>>>>>
    /\ resp_body = <<>>
    /\ ~file_opened

\* A range that starts at or past the end of a non-empty file was answered.
C10_Witness ==
  /\ fpc = "done"
  /\ range_parsed
  /\ file_size >= 1
  /\ start >= file_size
  /\ start <= end
  /\ resp_status = <<416>>

\* The range [s, e] the three accepted forms name on a file of `size` bytes.
AcceptedRange(hdr, size) ==
  IF IsSuffixForm(hdr)
    THEN [s |-> Max(0, size - DecVal(DropFirst(SpecOf(hdr), 1))), e |-> size - 1]
  ELSE IF IsOpenEndedForm(hdr)
    THEN [s |-> DecVal(DropLast(SpecOf(hdr), 1)), e |-> size - 1]
  ELSE [s |-> ExplicitA(hdr), e |-> Min(ExplicitB(hdr), size - 1)]

\* bytes=-N with N >= 1, bytes=A- with A < size, or bytes=A-B with A <= B and
\* A < size, on a file of at least one byte.
SatisfiableAcceptedForm ==
  /\ path_kind = "file"
  /\ file_size >= 1
  /\ \/ IsSuffixForm(range_header) /\ DecVal(DropFirst(SpecOf(range_header), 1)) >= 1
     \/ IsOpenEndedForm(range_header)
          /\ DecVal(DropLast(SpecOf(range_header), 1)) < file_size
     \/ IsExplicitForm(range_header)
          /\ ExplicitA(range_header) <= ExplicitB(range_header)
          /\ ExplicitA(range_header) < file_size

\* C11: on a file of size >= 1, bytes=-N (N >= 1) serves
\* [max(0, size-N), size-1], bytes=A- (A < size) serves [A, size-1], and
\* bytes=A-B (A <= B, A < size) serves [A, min(B, size-1)]; each is answered
\* 206 with a Content-Range and a Content-Length naming exactly that range,
\* and the body is the file's bytes in it.
C11_AcceptedFormsResolve ==
  (SatisfiableAcceptedForm /\ fpc # "call") =>
    LET r == AcceptedRange(range_header, file_size)
    IN /\ fpc # "raised"
       /\ start = r.s /\ end = r.e
       /\ resp_status = <<206>>
       /\ HeaderValues(resp_headers, "Content-Range") = {<<"bytes", r.s, r.e, file_size>>}
       /\ HeaderValues(resp_headers, "Content-Length") = {r.e - r.s + 1}
       /\ (fpc = "done" => resp_body = SubSeq(FileBytes(file_size), r.s + 1, r.e + 1))

\* A suffix longer than the file was clamped to offset 0 and served whole in
\* buffer mode.
C11_Witness ==
  /\ SatisfiableAcceptedForm
  /\ IsSuffixForm(range_header)
  /\ DecVal(DropFirst(SpecOf(range_header), 1)) > file_size
  /\ file_size = 2
  /\ mode = "buffer"
  /\ fpc = "done"
  /\ start = 0
  /\ resp_body = <<0, 1>>

\* C12: whenever file() sends Content-Range: bytes s-e/size the status is 206
\* and 0 <= s <= e <= size-1, for any Range header, file size and status
\* argument; a response with another status carries no such header.
C12_ContentRangeWellFormed ==
  \A v \in HeaderValues(resp_headers, "Content-Range") :
    Len(v) = 4 =>
      /\ resp_status = <<206>>
      /\ 0 <= v[2] /\ v[2] <= v[3] /\ v[3] <= v[4] - 1

\* The range resolved by the call is a range of the file's bytes (on an empty
\* file, the empty range).
ResolvedRange ==
  /\ path_kind = "file"
  /\ 0 <= start
  /\ start <= end + 1
  /\ end <= file_size - 1

\* C13: for the same file and resolved range [start, end] the three modes send
\* the same status, headers and body: what a call sends does not depend on
\* its mode, on how sendfile splits the transfer or on chunk_size, and the
\* body is the file's bytes in [start, end].
C13_ModesEquivalent ==
  (ResolvedRange /\ fpc \in {"open", "sendfile", "stream", "done", "raised"}
     /\ resp_status \in {<<200>>, <<206>>}) =>
    LET want == SubSeq(FileBytes(file_size), start + 1, end + 1)
    IN /\ fpc # "raised"
       /\ resp_headers = FileHeaders(resp_status[1], start, end, file_size)
       /\ Len(resp_body) <= Len(want)
       /\ resp_body = SubSeq(want, 1, Len(resp_body))
       /\ (fpc = "done" => resp_body = want /\ file_opened)

\* A whole three-byte file was streamed in chunks of two bytes and one byte.
C13_Witness ==
  /\ ResolvedRange
  /\ fpc = "done"
  /\ mode = "stream"
  /\ chunk_size = 2
  /\ ~range_header.present
  /\ file_size = 3
  /\ remaining = 0
  /\ resp_body = <<0, 1, 2>>

-----------------------------------------------------------------------------
(* Properties of streamProxy and fetch (specification ProxySpec). *)

\* The upstream answered with an HTTP status and sent its whole body.
UpstreamAnswered == up.kind \in {"response", "http_error"} /\ ~up.stall

\* C14: when the upstream answers with any HTTP status, 4xx and 5xx
\* included, streamProxy relays that status and the upstream body and does
\* not fail locally.
C14_UpstreamStatusRelayed ==
  (px_op = "streamProxy" /\ px_headers_arg.kind = "Headers" /\ UpstreamAnswered) =>
    /\ px_exc = "none"
    /\ (ppc = "done" => px_status = <<up.status>> /\ px_body = up.body)

\* The hop-by-hop names of the claim.
ClaimedHopByHop ==
  {"connection", "keep-alive", "proxy-authenticate", "proxy-authorization", "te",
   "trailers", "transfer-encoding", "upgrade", "host", "content-length",
   "accept-encoding"}

\* The Accept-Ranges headers of a header sequence, in any letter case.
AcceptRangesOf(hs) == SelectSeq(hs, LAMBDA h : Lower(h[1]) = "accept-ranges")

TransportFailure ==
  up.kind = "url_error" /\ up.reason \in {"name resolution", "connection refused"}

\* The upstream request timed out, while connecting or while waiting for the
\* response.
UpstreamTimedOut ==
  up.kind = "timeout" \/ (up.kind = "url_error" /\ up.reason = "timed out")

\* C16: when the upstream request fails at transport level the client gets
\* exactly one response, 502 with the body Bad Gateway: <reason>; when it
\* times out, exactly one response with status 504; streamProxy returns
\* normally and writes nothing of an upstream body.
C16_GatewayFailures ==
  (px_op = "streamProxy" /\ px_requested) =>
    /\ TransportFailure =>
         /\ ppc = "done" /\ px_exc = "none"
         /\ px_status = <<502>>
         /\ px_body = <<<<"Bad Gateway: ", up.reason>>>>
    /\ UpstreamTimedOut =>
         /\ ppc = "done" /\ px_exc = "none"
         /\ px_status = <<504>>

\* C17: fetch returns a Response whose status is the upstream's, for 2xx and
\* for 4xx/5xx, whose headers are the upstream headers that are not
\* hop-by-hop, and whose body is the whole upstream body.
C17_FetchReturnsUpstream ==
  (px_op = "fetch" /\ ppc # "call" /\ UpstreamAnswered) =>
    /\ ppc = "done"
    /\ fetch_result.status = up.status
    /\ {q[1] : q \in fetch_result.headers} =
         {up.headers[i][1] : i \in {j \in DOMAIN up.headers :
                                      Lower(up.headers[j][1]) \notin FetchHopByHop}}
    /\ fetch_result.body = up.body

\* C18: fetch never raises on an upstream failure: a name-resolution or
\* connection failure gives a result with status 502 and the body
\* Bad Gateway: <reason>, a timeout a result with status 504.
C18_FetchClassifiesFailures ==
  (px_op = "fetch" /\ ppc # "call" /\ up.kind \in {"url_error", "timeout"}) =>
    /\ px_exc = "none"
    /\ ppc = "done"
    /\ TransportFailure =>
         fetch_result.status = 502
           /\ fetch_result.body = <<<<"Bad Gateway: ", up.reason>>>>
    /\ up.kind = "timeout" => fetch_result.status = 504

-----------------------------------------------------------------------------
(* Properties of the error record (specification ErrorSpec). *)

\* C19: the record _handle_error builds has status 500 for a failure that
\* carries no HTTP status and keeps the status of one that does: a handler
\* raising HttpServerError with status_code s leads to an error callback call
\* whose error.status_code is s.
C19_RecordKeepsStatus ==
  (er_caller = "_handle_error" /\ epc \in {"deliver", "done"}) =>
    /\ er_error.status_code =
         (IF er_exc.cls = "HttpServerError" THEN er_exc.status_code ELSE 500)
    /\ \A i \in DOMAIN er_callback_arg :
         er_exc.cls = "HttpServerError" =>
           er_callback_arg[i].status_code = er_exc.status_code

-----------------------------------------------------------------------------
(* Properties of start()'s retries (specification StartSpec). *)

\* The positions of the bind attempts in the log.
BindAttempts == {i \in DOMAIN st_log : st_log[i][1] = "bind"}

\* C20: when binding fails because the address is in use, start() retries at
\* most 2 times (at most 3 bind attempts), each retry comes right after a
\* call of the free-this-port helper and a wait, and start() returns normally
\* only if its last bind succeeded; a bind failure of another kind is
\* followed by no further attempt and is raised.
C20_BoundedBindRetries ==
  /\ Cardinality(BindAttempts) <= 3
  /\ \A i \in BindAttempts :
       /\ i > 1 =>
            /\ i >= 4
            /\ st_log[i - 1][1] = "sleep"
            /\ st_log[i - 2][1] = "kill" /\ st_log[i - 2][2]
            /\ st_log[i - 3][1] = "bind"
            /\ st_log[i - 3][2] = EADDRINUSE(st_platform)
       /\ st_log[i][2] # 0 =>
            /\ st_pc # "returned" \/ \E j \in BindAttempts : j > i
            /\ st_log[i][2] # EADDRINUSE(st_platform) =>
                 /\ i = Len(st_log)
                 /\ st_pc \in {"except", "finally", "raised"}
                 /\ st_exc = "OSError" /\ st_errno = st_log[i][2]

\* Three binds found the address in use, the helper freed the port twice,
\* and the third failure was raised to the caller.
C20_Witness ==
  /\ st_pc = "raised"
  /\ st_exc = "OSError"
  /\ st_errno = EADDRINUSE(st_platform)
  /\ Cardinality(BindAttempts) = 3
  /\ \A i \in BindAttempts : st_log[i][2] = EADDRINUSE(st_platform)
  /\ Cardinality({i \in DOMAIN st_log : st_log[i][1] = "sleep"}) = 2

-----------------------------------------------------------------------------
(* Properties of the error adapter (specification Spec). *)

RequestOver == hpc \in {"done", "escaped"}

\* C1: on any connection the status line is written (send_response) at most
\* once per request, over every path through the handler, the response
\* methods and the error adapter. Stated for the requests that reach the
\* user handler.
C1_StatusLineAtMostOnce == handler_calls = 1 => status_lines <= 1

\* C5: for every request whose handling raises an uncaught failure other than
\* BrokenPipeError/ConnectionResetError (in the read, the handler or the
\* final flush), the error callback or default page is invoked exactly once.
C5_ErrorCallbackExactlyOnce ==
  (RequestOver /\ other_raised) => callback_calls = 1

\* C6: a BrokenPipeError or ConnectionResetError raised in the handler, in a
\* response write or in the final flush goes straight to the suppressed
\* state: the step that catches it invokes neither the error callback nor the
\* default page, writes nothing, and sets close_connection; and a request
\* whose only failures were of that kind ends with no error callback invoked
\* and close_connection set.
C6_DisconnectSuppressed ==
  /\ [][(hpc = "error" /\ err_exc = "bp") =>
          /\ callback_calls' = callback_calls
          /\ status_lines' = status_lines
          /\ wire' = wire
          /\ close_connection'
          /\ suppressed'
          /\ hpc' \in {"flush", "done"}]_vars
  /\ []((RequestOver /\ suppressed /\ ~other_raised) =>
          (callback_calls = 0 /\ close_connection))

\* The handler wrote a status line and headers, then a write raised
\* BrokenPipeError inside the handler, and the request ended suppressed.
C6_Witness ==
  /\ hpc = "done"
  /\ suppressed
  /\ suppressed_in_handler
  /\ handler_calls = 1
  /\ wire = <<<<"handler", "head">>>>
  /\ callback_calls = 0
  /\ close_connection

\* C7: if producing the error response itself fails (the configured error
\* callback raises, or the built-in default page raises), the error callback
\* / default page is not invoked a second time, no further write is made, and
\* the connection is marked closed.
C7_NoResponseAfterFailedErrorResponse ==
  error_response_failed =>
    /\ callback_calls = calls_at_failure
    /\ status_lines + Len(wire) = writes_at_failure
    /\ (RequestOver => close_connection)

-----------------------------------------------------------------------------
(* Properties of request admission (specification Spec). *)

\* C21: the user handler is invoked only for a request whose line is not
\* oversized and parses; a request answered 414 or 400, an empty read, and a
\* request answered 501 for want of a callable handler invoke neither the
\* handler nor the error callback (nor the default page that stands in for it).
C21_RejectedInvokesNothing ==
  /\ (handler_calls > 0 => (rejected = "none" /\ path_set))
  /\ (rejected # "none" => (handler_calls = 0 /\ callback_calls = 0))

-----------------------------------------------------------------------------
(* Properties of the default error page (specification ErrorSpec). *)

\* C22: with no error callback configured, the response _handle_error sends
\* for a failing handler is the status-500 page titled "Error 500" whose only
\* message is "Internal Server Error", whatever the exception and its text.
C22_DefaultPageHidesException ==
  (epc = "done" /\ er_caller = "_handle_error" /\ ~er_configured) =>
    er_page = [status |-> 500, title |-> <<"Error ", 500>>,
               message |-> "Internal Server Error"]

\* The default page was sent for an HttpServerError whose text is "secret".
C22_Witness ==
  /\ epc = "done"
  /\ er_caller = "_handle_error"
  /\ ~er_configured
  /\ er_exc.cls = "HttpServerError"
  /\ er_exc.text = "secret"
  /\ er_page.message = "Internal Server Error"

\* C23: whenever the user handler, the error callback or the default page
\* has been invoked, request.response is bound; and whenever the error
\* callback or the default page has been invoked, path_no_query and
\* query_params are set, parsed from the request's raw path when it has one
\* and from "/" otherwise.
C23_ContextReadyBeforeUserCode ==
  /\ ((handler_calls > 0 \/ callback_calls > 0) => response_bound)
  /\ (callback_calls > 0 =>
        /\ path_set
        /\ path_from = (IF raw_path THEN "raw" ELSE "slash"))

\* The error callback ran for a request that never reached
\* _set_path_and_query and has no path attribute: its path came from "/".
C23_Witness ==
  /\ callback_calls = 1
  /\ handler_calls = 0
  /\ error_handler_set
  /\ rejected = "414"
  /\ ~raw_path
  /\ path_from = "slash"
  /\ response_bound

-----------------------------------------------------------------------------
(* Properties of the direct response methods (specification ResponseSpec). *)

IsContentType(name) == name \in {"Content-Type", "content-type"}

ContentTypesSent == Cardinality({i \in 1..Len(rs_out) :
                                   rs_out[i].ev = "header" /\ IsContentType(rs_out[i].name)})

\* How many of the caller's own headers name the content type.
CallerContentTypes == Cardinality({i \in 1..Len(rs_headers_arg) :
                                     IsContentType(rs_headers_arg[i][1])})

\* C24: html, text, json and rewrite emit exactly one Content-Type header
\* (rewrite for every body shape, and for a Response whose headers already
\* name content-type in any letter case); redirect emits a Location header
\* and writes no body.
C24_ExactlyOneContentType ==
  (rpc = "done" /\ rs_method \in DirectMethods /\ CallerContentTypes <= 1) =>
    /\ rs_method # "redirect" => ContentTypesSent = 1
    /\ rs_method = "redirect" =>
         /\ \E i \in 1..Len(rs_out) : rs_out[i].ev = "header" /\ rs_out[i].name = "Location"
         /\ \A i \in 1..Len(rs_out) : rs_out[i].ev # "body"

\* The place of a socket event in a response: status line, headers, the end
\* of the header block, body.
EventRank(e) ==
  CASE e.ev = "status" -> 1
    [] e.ev = "header" -> 2
    [] e.ev = "end_headers" -> 3
    [] e.ev = "body" -> 4

-----------------------------------------------------------------------------
(* Properties of a worker's end of request (specification PoolSpec). *)

\* C26: every connection a worker is done with has been shut down
\* (shutdown_request), whether the handler returned, raised, or the error
\* response itself failed; and a worker that is done no longer holds a slot
\* of the pool.
C26_WorkerShutsDownConnection ==
  /\ finished \subseteq request_closed
  /\ finished \cap running = {}
  /\ Cardinality(running) <= max_workers

-----------------------------------------------------------------------------
(* Properties of file()'s transfer loops (specification FileAnyChunkSpec). *)

\* C27: in the body-transfer loops of file() the number of body bytes written
\* never exceeds the Content-Length announced: in sendfile mode
\* sent <= content_length at every step, and in stream mode the bytes written
\* sum to at most content_length, for any chunk_size argument. (Stated for
\* the calls that announce a length of 0 or more.)
C27_BodyWithinContentLength ==
  (file_opened /\ fpc \in {"sendfile", "stream", "done", "raised"}
     /\ content_length >= 0) =>
    /\ HeaderValues(resp_headers, "Content-Length") = {content_length}
    /\ Len(resp_body) <= content_length
    /\ sent <= content_length

-----------------------------------------------------------------------------
(* Properties of stop() (specification PoolSpec). *)

\* C28: stop(), also when it runs in another thread while start() is closing
\* the server, never raises (nor does start()'s cleanup), and once it has
\* returned the listening socket is closed and HttpServer.server is None.
C28_StopNeverRaises ==
  /\ \A t \in Threads : tpc[t] # "raised"
  /\ tpc["stop"] = "returned" => (~sock_open /\ ~server_ref)

=============================================================================
